---------------------------- MODULE Spec2Model ----------------------------
(***************************************************************************)
(* A model of the resume-tailor service: the keyword matcher, the          *)
(* confidence scorer, the model-backend adapter (AIService) with its       *)
(* fallbacks, and the request handlers of the /resume router.              *)
(*                                                                         *)
(* Text is a sequence of one-character strings, so that substring search,  *)
(* case folding, stripping and slicing are computed, not assumed.          *)
(* Importance weights are natural numbers of tenths (8 is 0.8), and a      *)
(* confidence score is the fraction [num, den] the code divides.           *)
(***************************************************************************)
EXTENDS Integers, Sequences, FiniteSets, TLC

VARIABLES
    environment,  \* what AIService.__init__ found, where a specification notes it
    client,       \* AIService.client: "ollama", "openai" or "none"
    httpRequest,  \* the request being handled, with the backend's replies to it
    httpResponse, \* the handler's response to the request
    extracted,    \* the keyword extraction made for the request, if any
    prevKeywords, \* the last extraction a request before made on the fallback path
    backendCalls, \* the adapter operations the request invoked, with the calls each sent
    ollamaReachable, \* whether the Ollama endpoint would answer a probe with 200 now
    probes,       \* the reachability probes made since the process started
    tempFile,     \* the temporary file of an upload: "none", "exists" or "deleted"
    uploadText,   \* the resume text of an upload, as extracted and then as cleaned
    uploadLog,    \* the steps the handler of an upload has taken, in order
    resumeText,   \* analyze_resume_keywords: resume_text
    keywordList,  \* analyze_resume_keywords: keywords
    matchResult,  \* analyze_resume_keywords: the returned keyword_analysis
    records,      \* calculate_confidence_score: keywords (the records)
    analysis,     \* calculate_confidence_score: keyword_analysis
    score,        \* calculate_confidence_score: the returned score
    jobDescription, \* _fallback_keyword_extraction: job_description
    foundKeywords,  \* _fallback_keyword_extraction: the returned found_keywords
    sectionText,  \* _fallback_section_analysis: resume_text
    splitSections, \* _fallback_section_analysis: the returned sections
    keywordAnalysis, \* generate_improvement_suggestions: keyword_analysis
    suggestionCall, \* generate_improvement_suggestions: one call and its result
    phase         \* "input" before the operation under study has run, "done" after

vars == <<environment, client, httpRequest, httpResponse, extracted, prevKeywords, backendCalls,
          ollamaReachable, probes, tempFile, uploadText, uploadLog, resumeText, keywordList,
          matchResult, records, analysis, score, jobDescription, foundKeywords,
          sectionText, splitSections, keywordAnalysis, suggestionCall,
          phase>>

-----------------------------------------------------------------------------
(* Bounds of the model *)

\* longest resume text drawn for the keyword matcher
MaxTextLen == 4

\* most pieces a job description drawn for the fallback extraction is made of
MaxPieces == 3

\* most lines a resume drawn for the section splitter has
MaxLines == 4

\* most lines of a resume drawn with blank lines among them
MaxMixedLines == 3

\* most keywords of a keyword analysis drawn for the fallback suggestions
MaxAnalysed == 6

\* most occurrences of the keyword in a long resume drawn for the contexts
MaxOccurrences == 4

\* longest keyword drawn for the keyword matcher
MaxKwLen == 2

\* most keyword records drawn for the confidence scorer
MaxRecords == 3

-----------------------------------------------------------------------------
(* Characters and strings *)

UpperLetters == <<"A","B","C","D","E","F","G","H","I","J","K","L","M",
                  "N","O","P","Q","R","S","T","U","V","W","X","Y","Z">>

LowerLetters == <<"a","b","c","d","e","f","g","h","i","j","k","l","m",
                  "n","o","p","q","r","s","t","u","v","w","x","y","z">>

Digits == {"0","1","2","3","4","5","6","7","8","9"}

Whitespace == {" ", "\n", "\t", "\r"}

\* the lower-case letter of each upper-case letter
LowerOf == [c \in {UpperLetters[i] : i \in 1..26} |->
              LowerLetters[CHOOSE i \in 1..26 : UpperLetters[i] = c]]

\* the upper-case letter of each lower-case letter
UpperOf == [c \in {LowerLetters[i] : i \in 1..26} |->
              UpperLetters[CHOOSE i \in 1..26 : LowerLetters[i] = c]]

\* str.lower() on one character
LowerChar(c) == IF c \in DOMAIN LowerOf THEN LowerOf[c] ELSE c

\* str.upper() on one character
UpperChar(c) == IF c \in DOMAIN UpperOf THEN UpperOf[c] ELSE c

\* str.lower()
Lower(s) == [i \in 1..Len(s) |-> LowerChar(s[i])]

\* s[a:b] with 0-based, already clamped, Python slice indices
Slice(s, a, b) == IF b <= a THEN <<>> ELSE SubSeq(s, a + 1, b)

\* str.strip(): leading and trailing whitespace removed
Strip(s) ==
    LET keep == {i \in 1..Len(s) : s[i] \notin Whitespace}
    IN  IF keep = {} THEN <<>>
        ELSE LET lo == CHOOSE i \in keep : \A j \in keep : i <= j
                 hi == CHOOSE i \in keep : \A j \in keep : j <= i
             IN  SubSeq(s, lo, hi)

\* a variant that folds the case of the text and not of the pattern
MatchesAtFoldingText(t, p, i) ==
    /\ i + Len(p) <= Len(t)
    /\ \A j \in 1..Len(p) : LowerChar(t[i + j]) = p[j]

\* whether pattern p matches text t at 0-based offset i, compared
\* case-insensitively (re.escape makes the pattern a literal)
MatchesAt(t, p, i) ==
    /\ i + Len(p) <= Len(t)
    /\ \A j \in 1..Len(p) : LowerChar(t[i + j]) = LowerChar(p[j])

\* a variant that also yields the matches that overlap an earlier match
RECURSIVE MatchStartsOverlapping(_, _, _)
MatchStartsOverlapping(t, p, i) ==
    IF i > Len(t) THEN <<>>
    ELSE IF MatchesAt(t, p, i)
         THEN <<i>> \o MatchStartsOverlapping(t, p, i + 1)
         ELSE MatchStartsOverlapping(t, p, i + 1)

\* the 0-based start offsets of the matches pattern.finditer yields from
\* offset i on: leftmost first, non-overlapping; an empty match moves the
\* scan on by one character
RECURSIVE MatchStarts(_, _, _)
MatchStarts(t, p, i) ==
    IF i > Len(t) THEN <<>>
    ELSE IF MatchesAt(t, p, i)
         THEN <<i>> \o MatchStarts(t, p, IF Len(p) = 0 THEN i + 1 ELSE i + Len(p))
         ELSE MatchStarts(t, p, i + 1)

\* "keyword in text" on Python strings: case-sensitive substring test
Contains(t, p) ==
    \E i \in 1..(Len(t) - Len(p) + 1) : SubSeq(t, i, i + Len(p) - 1) = p

\* the first n elements of a sequence: s[:n]
Take(s, n) == IF Len(s) <= n THEN s ELSE SubSeq(s, 1, n)

-----------------------------------------------------------------------------
(* AIService.analyze_resume_keywords *)

\* characters of context kept on each side of a match
ContextWindow == 50

\* contexts kept for a keyword
MaxContexts == 3

\* a variant that measures the window on both sides from the start of the match
match_context_from_start(resume_text, keyword, mstart) ==
    LET start == IF mstart - ContextWindow > 0 THEN mstart - ContextWindow ELSE 0
        end   == IF mstart + ContextWindow < Len(resume_text)
                 THEN mstart + ContextWindow ELSE Len(resume_text)
    IN  Strip(Slice(resume_text, start, end))

\* the context of the match that starts at 0-based offset mstart
match_context(resume_text, keyword, mstart) ==
    LET start == IF mstart - ContextWindow > 0 THEN mstart - ContextWindow ELSE 0
        mend  == mstart + Len(keyword)
        end   == IF mend + ContextWindow < Len(resume_text)
                 THEN mend + ContextWindow ELSE Len(resume_text)
    IN  Strip(Slice(resume_text, start, end))

\* a variant that keeps the context of every match
analyze_keyword_all_contexts(resume_text, keyword) ==
    LET starts == MatchStarts(resume_text, keyword, 0)
    IN  [keyword   |-> keyword,
         found     |-> Len(starts) > 0,
         frequency |-> Len(starts),
         context   |-> [k \in 1..Len(starts) |->
                          match_context(resume_text, keyword, starts[k])]]

\* the dictionary stored for one keyword
analyze_keyword(resume_text, keyword) ==
    LET starts    == MatchStarts(resume_text, keyword, 0)
        frequency == Len(starts)
        context   == [k \in 1..Len(starts) |->
                        match_context(resume_text, keyword, starts[k])]
    IN  [keyword   |-> keyword,
         found     |-> frequency > 0,
         frequency |-> frequency,
         context   |-> Take(context, MaxContexts)]

\* the keys of a dictionary built by inserting the keywords in order: each
\* key once, at the place of its first insertion
RECURSIVE DictKeys(_)
DictKeys(keywords) ==
    IF keywords = <<>> THEN <<>>
    ELSE LET front == DictKeys(SubSeq(keywords, 1, Len(keywords) - 1))
             last  == keywords[Len(keywords)]
         IN  IF \E i \in 1..Len(front) : front[i] = last
             THEN front ELSE Append(front, last)

\* keyword_analysis: the dictionary as the sequence of its items in
\* insertion order
analyze_resume_keywords(resume_text, keywords) ==
    LET keys == DictKeys(keywords)
    IN  [i \in 1..Len(keys) |-> analyze_keyword(resume_text, keys[i])]

-----------------------------------------------------------------------------
(* AIService.calculate_confidence_score *)

\* a score is the fraction num/den, den > 0
Fraction(n, d) == [num |-> n, den |-> d]

\* the float 0.0
Zero == Fraction(0, 1)

\* the float 1.0
One == Fraction(1, 1)

\* a <= b on fractions
FracLeq(a, b) == a.num * b.den <= b.num * a.den

\* a = b on fractions
FracEq(a, b) == a.num * b.den = b.num * a.den

\* min(1.0, n/d) for d > 0
MinOne(n, d) == IF FracLeq(One, Fraction(n, d)) THEN One ELSE Fraction(n, d)

\* keyword in keyword_analysis and keyword_analysis[keyword]['found']
FoundIn(keyword_analysis, keyword) ==
    \E i \in 1..Len(keyword_analysis) :
        /\ keyword_analysis[i].keyword = keyword
        /\ keyword_analysis[i].found

\* kw.get('importance', 0)
get_importance(kw) == IF "importance" \in DOMAIN kw THEN kw.importance ELSE 0

\* kw.get('keyword', '')
get_keyword(kw) == IF "keyword" \in DOMAIN kw THEN kw.keyword ELSE <<>>

\* sum(kw.get('importance', 0) for kw in keywords)
RECURSIVE total_importance(_)
total_importance(keywords) ==
    IF keywords = <<>> THEN 0
    ELSE get_importance(Head(keywords)) + total_importance(Tail(keywords))

\* the loop of lines 339-345, from the accumulator value acc on
RECURSIVE matched_importance(_, _, _)
matched_importance(keyword_analysis, keywords, acc) ==
    IF keywords = <<>> THEN acc
    ELSE LET kw_data == Head(keywords)
         IN  matched_importance(keyword_analysis, Tail(keywords),
                 IF FoundIn(keyword_analysis, get_keyword(kw_data))
                 THEN acc + get_importance(kw_data) ELSE acc)

\* a variant that weighs a found keyword by its frequency and does not cap
\* the ratio
RECURSIVE matched_by_frequency(_, _, _)
matched_by_frequency(keyword_analysis, keywords, acc) ==
    IF keywords = <<>> THEN acc
    ELSE LET kw_data == Head(keywords)
             hits    == {i \in 1..Len(keyword_analysis) :
                            /\ keyword_analysis[i].keyword = get_keyword(kw_data)
                            /\ keyword_analysis[i].found}
         IN  matched_by_frequency(keyword_analysis, Tail(keywords),
                 IF hits = {} THEN acc
                 ELSE acc + get_importance(kw_data)
                            * keyword_analysis[CHOOSE i \in hits : TRUE].frequency)

confidence_score_by_frequency(keyword_analysis, keywords) ==
    IF keywords = <<>> THEN Zero
    ELSE IF total_importance(keywords) = 0 THEN Zero
    ELSE Fraction(matched_by_frequency(keyword_analysis, keywords, 0),
                  total_importance(keywords))

\* a variant that counts keywords instead of weighing them
confidence_score_by_count(keyword_analysis, keywords) ==
    IF keywords = <<>> THEN Zero
    ELSE MinOne(Cardinality({i \in 1..Len(keywords) :
                                FoundIn(keyword_analysis, keywords[i].keyword)}),
                Len(keywords))

\* a variant that takes every analysed keyword as matched, found or not
confidence_score_ignoring_found(keyword_analysis, keywords) ==
    IF keywords = <<>> THEN Zero
    ELSE IF total_importance(keywords) = 0 THEN Zero
    ELSE MinOne(matched_importance(
                    [i \in 1..Len(keyword_analysis) |->
                        [keyword_analysis[i] EXCEPT !.found = TRUE]],
                    keywords, 0),
                total_importance(keywords))

calculate_confidence_score(keyword_analysis, keywords) ==
    IF keywords = <<>> THEN Zero
    ELSE IF total_importance(keywords) = 0 THEN Zero
    ELSE MinOne(matched_importance(keyword_analysis, keywords, 0),
                total_importance(keywords))

-----------------------------------------------------------------------------
(* AIService: construction *)

\* _check_ollama_connection: the probe answers 200, answers another status,
\* or fails (connection refused, timeout)
ProbeOutcomes == {"200", "status", "unreachable"}

check_ollama_connection(probe) == probe = "200"

\* OPENAI_API_KEY: not set, set to the empty string, the placeholder of the
\* sample .env, or a key
ApiKeys == {"unset", "empty", "placeholder", "key"}

\* a variant that prefers OpenAI whenever its client can be constructed
select_client_openai_first(probe, api_key, openai_constructs) ==
    IF api_key = "key" /\ openai_constructs THEN "openai"
    ELSE IF probe = "200" THEN "ollama"
    ELSE "none"

\* AIService.__init__: the value of self.client
select_client(probe, api_key, openai_constructs) ==
    IF check_ollama_connection(probe) THEN "ollama"
    ELSE IF api_key \in {"unset", "empty"} \/ api_key = "placeholder" THEN "none"
    ELSE IF openai_constructs THEN "openai"
    ELSE "none"

-----------------------------------------------------------------------------
(* The model backend *)

(* A reply of the backend to one call is [transport, body].  transport is   *)
(* "ok" when a completion came back, and otherwise says how the call        *)
(* failed: "unreachable" (connection error), "timeout", "status" (an HTTP   *)
(* status other than 200), "garbled" (200 with a payload that is not the    *)
(* JSON the client expects).  body is the completion: its text, and what    *)
(* a JSON parser makes of it: parse = "none" (no bracketed part),           *)
(* "invalid" (a bracketed part that is not JSON), "embedded" (a JSON array  *)
(* inside other text), "array" (the text is a JSON array); items are the    *)
(* elements of that array.                                                  *)

FailedTransports == {"unreachable", "timeout", "status", "garbled"}

\* the empty string
EmptyBody == [text |-> <<>>, parse |-> "none", items |-> <<>>]

Body(text, parse, items) == [text |-> text, parse |-> parse, items |-> items]

\* AIService._call_ollama: the response field of a 200 answer, the empty
\* string otherwise
call_ollama(reply) ==
    IF reply.transport = "ok" THEN reply.body ELSE EmptyBody

\* self.client.chat.completions.create raises unless a completion came back
openai_raises(reply) == reply.transport # "ok"

\* re.search(r'\[.*\]', response, re.DOTALL) finds a bracketed part
has_bracketed_part(response) == response.parse \in {"invalid", "embedded", "array"}

\* json.loads accepts the bracketed part
bracketed_part_is_json(response) == response.parse \in {"embedded", "array"}

\* json.loads accepts the whole text
text_is_json(response) == response.parse = "array"

-----------------------------------------------------------------------------
(* AIService._fallback_keyword_extraction *)

\* technical_keywords, lines 355-361
technical_keywords ==
    <<
      <<"p","y","t","h","o","n">>,
      <<"j","a","v","a">>,
      <<"j","a","v","a","s","c","r","i","p","t">>,
      <<"r","e","a","c","t">>,
      <<"n","o","d","e",".","j","s">>,
      <<"s","q","l">>,
      <<"a","w","s">>,
      <<"d","o","c","k","e","r">>,
      <<"k","u","b","e","r","n","e","t","e","s">>,
      <<"m","a","c","h","i","n","e"," ","l","e","a","r","n","i","n","g">>,
      <<"a","i">>,
      <<"d","a","t","a"," ","s","c","i","e","n","c","e">>,
      <<"g","i","t">>,
      <<"a","g","i","l","e">>,
      <<"s","c","r","u","m">>,
      <<"a","p","i">>,
      <<"r","e","s","t">>,
      <<"g","r","a","p","h","q","l">>,
      <<"h","t","m","l">>,
      <<"c","s","s">>,
      <<"t","y","p","e","s","c","r","i","p","t">>,
      <<"a","n","g","u","l","a","r">>,
      <<"v","u","e",".","j","s">>,
      <<"m","o","n","g","o","d","b">>,
      <<"p","o","s","t","g","r","e","s","q","l">>,
      <<"m","y","s","q","l">>,
      <<"r","e","d","i","s">>,
      <<"e","l","a","s","t","i","c","s","e","a","r","c","h">>,
      <<"k","a","f","k","a">>,
      <<"s","p","a","r","k">>,
      <<"h","a","d","o","o","p">>,
      <<"t","e","n","s","o","r","f","l","o","w">>,
      <<"p","y","t","o","r","c","h">>,
      <<"s","c","i","k","i","t","-","l","e","a","r","n">>
    >>

\* soft_skills, lines 364-368
soft_skills ==
    <<
      <<"l","e","a","d","e","r","s","h","i","p">>,
      <<"c","o","m","m","u","n","i","c","a","t","i","o","n">>,
      <<"t","e","a","m","w","o","r","k">>,
      <<"p","r","o","b","l","e","m"," ","s","o","l","v","i","n","g">>,
      <<"a","n","a","l","y","t","i","c","a","l">>,
      <<"c","r","e","a","t","i","v","e">>,
      <<"o","r","g","a","n","i","z","e","d">>,
      <<"d","e","t","a","i","l","-","o","r","i","e","n","t","e","d">>,
      <<"t","i","m","e"," ","m","a","n","a","g","e","m","e","n","t">>,
      <<"c","o","l","l","a","b","o","r","a","t","i","o","n">>,
      <<"m","e","n","t","o","r","i","n","g">>,
      <<"p","r","o","j","e","c","t"," ","m","a","n","a","g","e","m","e","n",
        "t">>,
      <<"c","u","s","t","o","m","e","r"," ","s","e","r","v","i","c","e">>,
      <<"s","a","l","e","s">>,
      <<"m","a","r","k","e","t","i","n","g">>
    >>

\* tools, lines 371-374
tools ==
    <<
      <<"j","i","r","a">>,
      <<"c","o","n","f","l","u","e","n","c","e">>,
      <<"s","l","a","c","k">>,
      <<"t","e","a","m","s">>,
      <<"z","o","o","m">>,
      <<"f","i","g","m","a">>,
      <<"s","k","e","t","c","h">>,
      <<"p","h","o","t","o","s","h","o","p">>,
      <<"i","l","l","u","s","t","r","a","t","o","r">>,
      <<"e","x","c","e","l">>,
      <<"p","o","w","e","r","p","o","i","n","t">>,
      <<"w","o","r","d">>,
      <<"o","u","t","l","o","o","k">>
    >>

\* the five generic suggestions, lines 416-422
static_suggestions ==
    <<
      <<"U","s","e"," ","a","c","t","i","o","n"," ","v","e","r","b","s"," ",
        "t","o"," ","s","t","a","r","t"," ","b","u","l","l","e","t"," ","p",
        "o","i","n","t","s"," ","(","e",".","g",".",","," ","'","D","e","v",
        "e","l","o","p","e","d","'",","," ","'","I","m","p","l","e","m","e",
        "n","t","e","d","'",","," ","'","L","e","d","'",")">>,
      <<"I","n","c","l","u","d","e"," ","s","p","e","c","i","f","i","c"," ",
        "m","e","t","r","i","c","s"," ","a","n","d"," ","q","u","a","n","t",
        "i","f","i","a","b","l","e"," ","a","c","h","i","e","v","e","m","e",
        "n","t","s">>,
      <<"E","n","s","u","r","e"," ","y","o","u","r"," ","r","e","s","u","m",
        "e"," ","i","s"," ","A","T","S","-","f","r","i","e","n","d","l","y",
        " ","w","i","t","h"," ","c","l","e","a","r"," ","s","e","c","t","i",
        "o","n"," ","h","e","a","d","e","r","s">>,
      <<"H","i","g","h","l","i","g","h","t"," ","r","e","l","e","v","a","n",
        "t"," ","e","x","p","e","r","i","e","n","c","e"," ","t","h","a","t",
        " ","m","a","t","c","h","e","s"," ","t","h","e"," ","j","o","b"," ",
        "r","e","q","u","i","r","e","m","e","n","t","s">>,
      <<"K","e","e","p"," ","b","u","l","l","e","t"," ","p","o","i","n","t",
        "s"," ","c","o","n","c","i","s","e"," ","a","n","d"," ","i","m","p",
        "a","c","t","f","u","l">>
    >>

\* 'Add the following keywords to your resume: '
missing_prefix ==
    <<"A","d","d"," ","t","h","e"," ","f","o","l","l","o",
    "w","i","n","g"," ","k","e","y","w","o","r","d","s"," ","t","o"," ","y",
    "o","u","r"," ","r","e","s","u","m","e",":"," ">>

\* ', '
comma_space ==
    <<","," ">>

KeywordRecord(k, imp, cat) == [keyword |-> k, importance |-> imp, category |-> cat]

\* one loop of lines 380-404: a record for each term of the list that is a
\* substring of job_lower, in list order; importance in tenths
RECURSIVE scan_terms(_, _, _, _)
scan_terms(terms, job_lower, imp, cat) ==
    IF terms = <<>> THEN <<>>
    ELSE (IF Contains(job_lower, Head(terms))
          THEN <<KeywordRecord(Head(terms), imp, cat)>> ELSE <<>>)
         \o scan_terms(Tail(terms), job_lower, imp, cat)

\* a variant that scans the job description as given
fallback_keyword_extraction_cased(job_description) ==
    scan_terms(technical_keywords, job_description, 8, "technical")
    \o scan_terms(soft_skills, job_description, 6, "soft_skill")
    \o scan_terms(tools, job_description, 7, "tool")

fallback_keyword_extraction(job_description) ==
    LET job_lower == Lower(job_description)
    IN  scan_terms(technical_keywords, job_lower, 8, "technical")
        \o scan_terms(soft_skills, job_lower, 6, "soft_skill")
        \o scan_terms(tools, job_lower, 7, "tool")

\* a variant of _call_ollama that posts a second time when the first post
\* failed
ollama_requests_retrying(reply) ==
    IF reply.transport \in FailedTransports
    THEN <<reply.transport, reply.transport>> ELSE <<reply.transport>>

\* the requests one call of _call_ollama sends: one requests.post, whatever
\* comes of it
ollama_requests(reply) == <<reply.transport>>

\* the requests one chat.completions.create of the adapter makes
openai_requests(reply) == <<reply.transport>>

\* the backend calls of one invocation of an adapter operation: each of the
\* four operations calls _call_ollama once in Ollama mode, nothing with no
\* client, and chat.completions.create once otherwise
adapter_requests(c, reply) ==
    IF c = "ollama" THEN ollama_requests(reply)
    ELSE IF c = "none" THEN <<>>
    ELSE openai_requests(reply)

\* the backend an adapter operation turns to: the branch its dispatch on
\* self.client takes
called_backend(c) ==
    IF c = "ollama" THEN "ollama"
    ELSE IF c = "none" THEN "none"
    ELSE "openai"

\* one invocation of an adapter operation, with the backend it turned to and
\* the calls it made
Invocation(operation, c, reply) ==
    [operation |-> operation,
     backend   |-> called_backend(c),
     requests  |-> adapter_requests(c, reply)]

-----------------------------------------------------------------------------
(* AIService.extract_keywords_from_job_description *)

\* AIService._extract_keywords_with_ollama
extract_keywords_with_ollama(reply, job_description) ==
    LET response == call_ollama(reply)
    IN  IF has_bracketed_part(response)
        THEN IF bracketed_part_is_json(response)
             THEN response.items
             ELSE fallback_keyword_extraction(job_description)
        ELSE fallback_keyword_extraction(job_description)

\* the OpenAI branch, lines 52-81
extract_keywords_with_openai(reply, job_description) ==
    IF openai_raises(reply) THEN fallback_keyword_extraction(job_description)
    ELSE IF text_is_json(reply.body) THEN reply.body.items
    ELSE fallback_keyword_extraction(job_description)

\* a variant that asks the backend whatever the client is
extract_keywords_always_asking(c, reply, job_description) ==
    IF c = "openai" THEN extract_keywords_with_openai(reply, job_description)
    ELSE extract_keywords_with_ollama(reply, job_description)

extract_keywords_from_job_description(c, reply, job_description) ==
    IF c = "ollama" THEN extract_keywords_with_ollama(reply, job_description)
    ELSE IF c = "none" THEN fallback_keyword_extraction(job_description)
    ELSE extract_keywords_with_openai(reply, job_description)

-----------------------------------------------------------------------------
(* AIService.tailor_resume *)

\* a rewritten resume must be longer than this to be returned
TailorMinLen == 100

\* a variant that returns whatever the backend returned
tailor_resume_with_ollama_unchecked(reply, resume_text) == call_ollama(reply).text

\* a variant that also returns a text of exactly TailorMinLen characters
tailor_resume_with_ollama_from_min(reply, resume_text) ==
    LET tailored_resume == call_ollama(reply).text
    IN  IF tailored_resume # <<>> /\ Len(tailored_resume) >= TailorMinLen
        THEN tailored_resume
        ELSE resume_text

\* AIService._tailor_resume_with_ollama
tailor_resume_with_ollama(reply, resume_text) ==
    LET tailored_resume == call_ollama(reply).text
    IN  IF tailored_resume # <<>> /\ Len(tailored_resume) > TailorMinLen
        THEN tailored_resume
        ELSE resume_text

\* the OpenAI branch, lines 173-206
tailor_resume_with_openai(reply, resume_text) ==
    IF openai_raises(reply) THEN resume_text ELSE Strip(reply.body.text)

tailor_resume(c, reply, resume_text) ==
    IF c = "ollama" THEN tailor_resume_with_ollama(reply, resume_text)
    ELSE IF c = "none" THEN resume_text
    ELSE tailor_resume_with_openai(reply, resume_text)

-----------------------------------------------------------------------------
(* AIService.generate_improvement_suggestions *)

\* the character U+2022
Bullet == "bullet"

\* a suggestion must be longer than this to be kept
MinSuggestionLen == 10

\* suggestions kept from a reply of Ollama
MaxSuggestions == 7

\* missing keywords named by the fallback
MissingShown == 5

\* str.split('\n')
RECURSIVE SplitLines(_)
SplitLines(text) ==
    IF \E i \in 1..Len(text) : text[i] = "\n"
    THEN LET i == CHOOSE j \in 1..Len(text) :
                     text[j] = "\n" /\ \A k \in 1..(j - 1) : text[k] # "\n"
         IN  <<SubSeq(text, 1, i - 1)>> \o SplitLines(SubSeq(text, i + 1, Len(text)))
    ELSE <<text>>

\* sep.join(parts)
RECURSIVE Join(_, _)
Join(parts, sep) ==
    IF parts = <<>> THEN <<>>
    ELSE IF Len(parts) = 1 THEN parts[1]
    ELSE parts[1] \o sep \o Join(Tail(parts), sep)

\* the characters of the class [\d\-•\.\s]
MarkerChars == Digits \cup {"-", Bullet, "."} \cup Whitespace

\* re.sub(r'^[\d\-•\.\s]+', '', line)
RECURSIVE DropMarkers(_)
DropMarkers(line) ==
    IF line # <<>> /\ Head(line) \in MarkerChars THEN DropMarkers(Tail(line)) ELSE line

\* the loop of lines 313-319 over the lines that are left
RECURSIVE parse_suggestions(_)
parse_suggestions(lines) ==
    IF lines = <<>> THEN <<>>
    ELSE LET line       == Strip(Head(lines))
             clean_line == Strip(DropMarkers(line))
         IN  (IF /\ line # <<>>
                 /\ (line[1] \in Digits \/ line[1] = "-" \/ line[1] = Bullet)
                 /\ clean_line # <<>>
                 /\ Len(clean_line) > MinSuggestionLen
              THEN <<clean_line>> ELSE <<>>)
             \o parse_suggestions(Tail(lines))

\* a variant that lists every keyword of the analysis
missing_keywords_of_every(keyword_analysis) ==
    [i \in 1..Len(keyword_analysis) |-> keyword_analysis[i].keyword]

\* [kw for kw, data in keyword_analysis.items() if not data["found"]]
RECURSIVE missing_keywords_of(_)
missing_keywords_of(keyword_analysis) ==
    IF keyword_analysis = <<>> THEN <<>>
    ELSE (IF Head(keyword_analysis).found THEN <<>>
          ELSE <<Head(keyword_analysis).keyword>>)
         \o missing_keywords_of(Tail(keyword_analysis))

\* a variant that names every missing keyword
fallback_suggestions_all_missing(keyword_analysis) ==
    LET missing_keywords == missing_keywords_of(keyword_analysis)
    IN  (IF missing_keywords # <<>>
         THEN <<missing_prefix \o Join(missing_keywords, comma_space)>>
         ELSE <<>>)
        \o static_suggestions

\* AIService._fallback_suggestions
fallback_suggestions(keyword_analysis) ==
    LET missing_keywords == missing_keywords_of(keyword_analysis)
    IN  (IF missing_keywords # <<>>
         THEN <<missing_prefix \o Join(Take(missing_keywords, MissingShown), comma_space)>>
         ELSE <<>>)
        \o static_suggestions

\* AIService._generate_suggestions_with_ollama
generate_suggestions_with_ollama(reply, keyword_analysis) ==
    LET suggestions_text == call_ollama(reply).text
        suggestions      == parse_suggestions(SplitLines(suggestions_text))
    IN  IF suggestions # <<>>
        THEN Take(suggestions, MaxSuggestions)
        ELSE fallback_suggestions(keyword_analysis)

\* [s.strip() for s in suggestions if s.strip()]
RECURSIVE stripped_nonempty(_)
stripped_nonempty(lines) ==
    IF lines = <<>> THEN <<>>
    ELSE (IF Strip(Head(lines)) # <<>> THEN <<Strip(Head(lines))>> ELSE <<>>)
         \o stripped_nonempty(Tail(lines))

\* the OpenAI branch, lines 247-278
generate_suggestions_with_openai(reply, keyword_analysis) ==
    IF openai_raises(reply) THEN fallback_suggestions(keyword_analysis)
    ELSE stripped_nonempty(SplitLines(Strip(reply.body.text)))

generate_improvement_suggestions(c, reply, keyword_analysis) ==
    IF c = "ollama" THEN generate_suggestions_with_ollama(reply, keyword_analysis)
    ELSE IF c = "none" THEN fallback_suggestions(keyword_analysis)
    ELSE generate_suggestions_with_openai(reply, keyword_analysis)

-----------------------------------------------------------------------------
(* AIService._fallback_section_analysis *)

\* section_keywords, lines 435-442, in the order of the dictionary
section_keywords ==
    <<
      [name |-> <<"e","x","p","e","r","i","e","n","c","e">>,
       synonyms |-> <<<<"e","x","p","e","r","i","e","n","c","e">>,
                     <<"w","o","r","k"," ","h","i","s","t","o","r","y">>,
                     <<"e","m","p","l","o","y","m","e","n","t">>,
                     <<"c","a","r","e","e","r">>>>],
      [name |-> <<"e","d","u","c","a","t","i","o","n">>,
       synonyms |-> <<<<"e","d","u","c","a","t","i","o","n">>,
                     <<"a","c","a","d","e","m","i","c">>,
                     <<"d","e","g","r","e","e">>,
                     <<"u","n","i","v","e","r","s","i","t","y">>,
                     <<"c","o","l","l","e","g","e">>>>],
      [name |-> <<"s","k","i","l","l","s">>,
       synonyms |-> <<<<"s","k","i","l","l","s">>,
                     <<"t","e","c","h","n","i","c","a","l"," ","s","k","i","l","l","s">>,
                     <<"c","o","m","p","e","t","e","n","c","i","e","s">>,
                     <<"e","x","p","e","r","t","i","s","e">>>>],
      [name |-> <<"s","u","m","m","a","r","y">>,
       synonyms |-> <<<<"s","u","m","m","a","r","y">>,
                     <<"o","b","j","e","c","t","i","v","e">>,
                     <<"p","r","o","f","i","l","e">>,
                     <<"a","b","o","u","t">>>>],
      [name |-> <<"p","r","o","j","e","c","t","s">>,
       synonyms |-> <<<<"p","r","o","j","e","c","t","s">>,
                     <<"p","o","r","t","f","o","l","i","o">>,
                     <<"a","c","h","i","e","v","e","m","e","n","t","s">>>>],
      [name |-> <<"c","e","r","t","i","f","i","c","a","t","i","o","n","s">>,
       synonyms |-> <<<<"c","e","r","t","i","f","i","c","a","t","i","o","n","s">>,
                     <<"c","e","r","t","i","f","i","c","a","t","e","s">>,
                     <<"l","i","c","e","n","s","e","s">>>>]
    >>

\* 'Summary'
default_section ==
    <<"S","u","m","m","a","r","y">>

Letters == DOMAIN LowerOf \cup DOMAIN UpperOf

\* str.title(): the first letter of every run of letters in upper case, the
\* other letters in lower case
Title(s) ==
    [i \in 1..Len(s) |->
        IF i = 1 \/ s[IF i = 1 THEN 1 ELSE i - 1] \notin Letters
        THEN UpperChar(s[i]) ELSE LowerChar(s[i])]

\* any(keyword in line_lower for keyword in keywords)
any_synonym_in(synonyms, line_lower) ==
    \E k \in 1..Len(synonyms) : Contains(line_lower, synonyms[k])

\* a variant that chooses the section whose synonym starts leftmost in the line
matched_section_leftmost(line_lower) ==
    LET starts(n) == {i \in 1..Len(line_lower) :
                         \E k \in 1..Len(section_keywords[n].synonyms) :
                            LET w == section_keywords[n].synonyms[k]
                            IN  /\ i + Len(w) - 1 <= Len(line_lower)
                                /\ SubSeq(line_lower, i, i + Len(w) - 1) = w}
        hits == {n \in 1..Len(section_keywords) : starts(n) # {}}
        first(n) == CHOOSE i \in starts(n) : \A j \in starts(n) : i <= j
    IN  IF hits = {} THEN 0
        ELSE CHOOSE n \in hits : \A m \in hits : first(n) <= first(m)

\* the index in section_keywords of the first section one of whose synonyms
\* the line holds, 0 if there is none
matched_section(line_lower) ==
    LET hits == {n \in 1..Len(section_keywords) :
                    any_synonym_in(section_keywords[n].synonyms, line_lower)}
    IN  IF hits = {} THEN 0 ELSE CHOOSE n \in hits : \A m \in hits : n <= m

\* the lines, each without its leading and trailing white space
RECURSIVE StripEach(_)
StripEach(ls) ==
    IF ls = <<>> THEN <<>> ELSE <<Strip(Head(ls))>> \o StripEach(Tail(ls))

\* a variant that trims every line of the content
section_of_trimmed_lines(current_section, current_content) ==
    [section_name |-> Title(current_section),
     content      |-> Join(StripEach(current_content), <<"\n">>)]

\* the dictionary appended to sections, lines 453-456 and 468-471
section_of(current_section, current_content) ==
    [section_name |-> Title(current_section),
     content      |-> Strip(Join(current_content, <<"\n">>))]

\* a variant in which a blank line ends the section that is being collected
RECURSIVE scan_sections_blank_ends_section(_, _, _, _)
scan_sections_blank_ends_section(lines, sections, current_section, current_content) ==
    IF lines = <<>>
    THEN IF current_content # <<>>
         THEN Append(sections, section_of(current_section, current_content))
         ELSE sections
    ELSE LET line       == Head(lines)
             line_lower == Strip(Lower(line))
             n          == matched_section(line_lower)
             flushed    == IF current_content # <<>>
                           THEN Append(sections, section_of(current_section, current_content))
                           ELSE sections
         IN  IF n > 0
             THEN scan_sections_blank_ends_section(Tail(lines), flushed,
                      Title(section_keywords[n].name), <<>>)
             ELSE IF Strip(line) = <<>>
             THEN scan_sections_blank_ends_section(Tail(lines), flushed,
                      current_section, <<>>)
             ELSE scan_sections_blank_ends_section(Tail(lines), sections,
                      current_section, Append(current_content, line))

\* the loop of lines 444-464 over the lines that are left, then lines 467-473
RECURSIVE scan_sections(_, _, _, _)
scan_sections(lines, sections, current_section, current_content) ==
    IF lines = <<>>
    THEN IF current_content # <<>>
         THEN Append(sections, section_of(current_section, current_content))
         ELSE sections
    ELSE LET line       == Head(lines)
             line_lower == Strip(Lower(line))
             n          == matched_section(line_lower)
         IN  IF n > 0
             THEN scan_sections(Tail(lines),
                      IF current_content # <<>>
                      THEN Append(sections, section_of(current_section, current_content))
                      ELSE sections,
                      Title(section_keywords[n].name), <<>>)
             ELSE scan_sections(Tail(lines), sections, current_section,
                      IF Strip(line) # <<>> THEN Append(current_content, line)
                      ELSE current_content)

\* a variant whose first label is 'Unknown'
fallback_section_analysis_unlabelled(resume_text) ==
    scan_sections(SplitLines(resume_text), <<>>, <<"U","n","k","n","o","w","n">>, <<>>)

fallback_section_analysis(resume_text) ==
    scan_sections(SplitLines(resume_text), <<>>, default_section, <<>>)

-----------------------------------------------------------------------------
(* AIService.analyze_resume_sections *)

\* AIService._analyze_sections_with_ollama
analyze_sections_with_ollama(reply, resume_text) ==
    LET response == call_ollama(reply)
    IN  IF has_bracketed_part(response)
        THEN IF bracketed_part_is_json(response)
             THEN response.items
             ELSE fallback_section_analysis(resume_text)
        ELSE fallback_section_analysis(resume_text)

\* the OpenAI branch, lines 482-507
analyze_sections_with_openai(reply, resume_text) ==
    IF openai_raises(reply) THEN fallback_section_analysis(resume_text)
    ELSE IF text_is_json(reply.body) THEN reply.body.items
    ELSE fallback_section_analysis(resume_text)

analyze_resume_sections(c, reply, resume_text) ==
    IF c = "ollama" THEN analyze_sections_with_ollama(reply, resume_text)
    ELSE IF c = "none" THEN fallback_section_analysis(resume_text)
    ELSE analyze_sections_with_openai(reply, resume_text)

-----------------------------------------------------------------------------
(* FileService *)

\* the character '\x00'
Nul == "NUL"

\* the index of the last occurrence of the character c in s, 0 if none
LastIndexOf(s, c) ==
    LET at == {i \in 1..Len(s) : s[i] = c}
    IN  IF at = {} THEN 0 ELSE CHOOSE i \in at : \A j \in at : j <= i

\* os.path.splitext(path)[1]: from the last dot of the last component on,
\* unless only dots come before it in the component
splitext(path) ==
    LET dot == LastIndexOf(path, ".")
        sep == LastIndexOf(path, "/")
    IN  IF dot > sep /\ \E k \in (sep + 1)..(dot - 1) : path[k] # "."
        THEN SubSeq(path, dot, Len(path)) ELSE <<>>

\* FileService.detect_file_format; "none" is None
detect_file_format(file_path) ==
    LET extension == splitext(Lower(file_path))
    IN  IF extension = <<".","p","d","f">> THEN "pdf"
        ELSE IF extension = <<".","d","o","c","x">> THEN "docx"
        ELSE IF extension = <<".","t","x","t">> THEN "txt"
        ELSE "none"

\* max_size_mb * 1024 * 1024 for the default max_size_mb = 10
MaxFileBytes == 10485760

\* FileService.validate_file_size
validate_file_size(file_size) == file_size <= MaxFileBytes

\* str.split(): the runs of characters that are not white space
RECURSIVE SplitWords(_)
SplitWords(text) ==
    IF text = <<>> THEN <<>>
    ELSE IF Head(text) \in Whitespace THEN SplitWords(Tail(text))
    ELSE LET ends == {i \in 1..Len(text) : text[i] \in Whitespace}
             n    == IF ends = {} THEN Len(text)
                     ELSE (CHOOSE i \in ends : \A j \in ends : i <= j) - 1
         IN  <<SubSeq(text, 1, n)>> \o SplitWords(SubSeq(text, n + 1, Len(text)))

\* text.replace('\x00', '')
RECURSIVE RemoveNul(_)
RemoveNul(text) ==
    IF text = <<>> THEN <<>>
    ELSE (IF Head(text) = Nul THEN <<>> ELSE <<Head(text)>>) \o RemoveNul(Tail(text))

\* text.replace('\r\n', '\n').replace('\r', '\n')
RECURSIVE NormalizeBreaks(_)
NormalizeBreaks(text) ==
    IF text = <<>> THEN <<>>
    ELSE IF Len(text) >= 2 /\ text[1] = "\r" /\ text[2] = "\n"
    THEN <<"\n">> \o NormalizeBreaks(SubSeq(text, 3, Len(text)))
    ELSE (IF Head(text) = "\r" THEN <<"\n">> ELSE <<Head(text)>>)
         \o NormalizeBreaks(Tail(text))

\* FileService.clean_text
clean_text(text) ==
    IF text = <<>> THEN <<>>
    ELSE Strip(NormalizeBreaks(RemoveNul(Join(SplitWords(text), <<" ">>))))

-----------------------------------------------------------------------------
(* Idle values of the variables a specification does not use *)

NoRequest == [endpoint |-> "none"]

\* the environment of the construction is not noted
NoEnvironment == [probe |-> "none"]

NoResponse == [status |-> 0]

UploadIdle ==
    /\ tempFile = "none"
    /\ uploadText = <<>>
    /\ uploadLog = <<>>

ServiceIdle ==
    /\ environment = NoEnvironment
    /\ client = "none"
    /\ httpRequest = NoRequest
    /\ httpResponse = NoResponse
    /\ extracted = <<>>
    /\ prevKeywords = <<>>
    /\ backendCalls = <<>>
    /\ ollamaReachable = FALSE
    /\ probes = 0
    /\ UploadIdle

MatcherIdle ==
    /\ resumeText = <<>>
    /\ keywordList = <<>>
    /\ matchResult = <<>>

ScorerIdle ==
    /\ records = <<>>
    /\ analysis = <<>>
    /\ score = Zero

ExtractorIdle ==
    /\ jobDescription = <<>>
    /\ foundKeywords = <<>>

SplitterIdle ==
    /\ sectionText = <<>>
    /\ splitSections = <<>>

SuggesterIdle ==
    /\ keywordAnalysis = <<>>
    /\ suggestionCall = <<>>

uploadVars == <<tempFile, uploadText, uploadLog>>

serviceVars == <<environment, client, httpRequest, httpResponse, extracted, prevKeywords, backendCalls,
                 ollamaReachable, probes, uploadVars>>

matcherVars == <<resumeText, keywordList, matchResult>>

scorerVars == <<records, analysis, score>>

extractorVars == <<jobDescription, foundKeywords>>

splitterVars == <<sectionText, splitSections>>

suggesterVars == <<keywordAnalysis, suggestionCall>>

\* the sequences over S of length at most n
SeqsUpTo(S, n) == UNION {[1..k -> S] : k \in 0..n}

-----------------------------------------------------------------------------
(* The keyword matcher on its own: every short text and keyword *)

MatchAlphabet == {"a", "A", "b", " "}

InitMatch ==
    /\ ServiceIdle
    /\ SuggesterIdle
    /\ ScorerIdle
    /\ ExtractorIdle
    /\ SplitterIdle
    /\ resumeText \in SeqsUpTo(MatchAlphabet, MaxTextLen)
    /\ keywordList \in {<<k>> : k \in SeqsUpTo(MatchAlphabet, MaxKwLen)}
    /\ matchResult = <<>>
    /\ phase = "input"

MatchStep ==
    /\ phase = "input"
    /\ matchResult' = analyze_resume_keywords(resumeText, keywordList)
    /\ phase' = "done"
    /\ UNCHANGED <<resumeText, keywordList, serviceVars, suggesterVars,
                   scorerVars, extractorVars, splitterVars>>

NextMatch == MatchStep

SpecMatch == InitMatch /\ [][NextMatch]_vars

-----------------------------------------------------------------------------
(* The confidence scorer on its own: every short record list and match map *)

ScoreKeywords == {<<"a">>, <<"b">>}

\* most occurrences a match map reports for a keyword
MaxFrequency == 2

\* importance weights drawn for the scorer, in tenths
ImportanceLevels == {0, 2, 8, 10}

KeywordRecords ==
    [keyword : ScoreKeywords, importance : ImportanceLevels, category : {"technical"}]

\* the match map that holds, for each keyword k with f[k] >= 0, an entry of
\* frequency f[k]; the keywords in the order of the sequence keys
RECURSIVE MatchMap(_, _)
MatchMap(keys, f) ==
    IF keys = <<>> THEN <<>>
    ELSE LET k    == Head(keys)
             rest == MatchMap(Tail(keys), f)
         IN  IF f[k] < 0 THEN rest
             ELSE <<[keyword |-> k, found |-> f[k] > 0, frequency |-> f[k],
                     context |-> <<>>]>> \o rest

InitScore ==
    /\ ServiceIdle
    /\ SuggesterIdle
    /\ MatcherIdle
    /\ ExtractorIdle
    /\ SplitterIdle
    /\ records \in SeqsUpTo(KeywordRecords, MaxRecords)
    /\ \E f \in [ScoreKeywords -> -1..MaxFrequency] :
           analysis = MatchMap(<<<<"a">>, <<"b">>>>, f)
    /\ score = Zero
    /\ phase = "input"

ScoreStep ==
    /\ phase = "input"
    /\ score' = calculate_confidence_score(analysis, records)
    /\ phase' = "done"
    /\ UNCHANGED <<records, analysis, serviceVars, suggesterVars,
                   matcherVars, extractorVars, splitterVars>>

NextScore == ScoreStep

SpecScore == InitScore /\ [][NextScore]_vars

-----------------------------------------------------------------------------
(* The fallback keyword extraction on its own: job descriptions made of a  *)
(* few pieces                                                              *)

\* 'Python', 'JAVA', 'Script', 'daily', 'Teamwork', 'jira', ', ', 'excel'
JobPieces ==
    { <<"P","y","t","h","o","n">>,
      <<"J","A","V","A">>,
      <<"S","c","r","i","p","t">>,
      <<"d","a","i","l","y">>,
      <<"T","e","a","m","w","o","r","k">>,
      <<"j","i","r","a">>,
      <<","," ">>,
      <<"e","x","c","e","l">> }

RECURSIVE Concat(_)
Concat(ss) == IF ss = <<>> THEN <<>> ELSE Head(ss) \o Concat(Tail(ss))

InitExtract ==
    /\ ServiceIdle
    /\ SuggesterIdle
    /\ MatcherIdle
    /\ ScorerIdle
    /\ SplitterIdle
    /\ jobDescription \in {Concat(ps) : ps \in SeqsUpTo(JobPieces, MaxPieces)}
    /\ foundKeywords = <<>>
    /\ phase = "input"

ExtractStep ==
    /\ phase = "input"
    /\ foundKeywords' = fallback_keyword_extraction(jobDescription)
    /\ phase' = "done"
    /\ UNCHANGED <<jobDescription, serviceVars, suggesterVars,
                   matcherVars, scorerVars, splitterVars>>

NextExtract == ExtractStep

SpecExtract == InitExtract /\ [][NextExtract]_vars

-----------------------------------------------------------------------------
(* The fallback section splitter on its own: resumes of a few lines *)

\* 'Summary', 'Built things', 'Experience', 'Did work', ' ',
\* 'Education and Skills', ' at Acme '
ResumeLines ==
    { <<"S","u","m","m","a","r","y">>,
      <<"B","u","i","l","t"," ","t","h","i","n","g","s">>,
      <<"E","x","p","e","r","i","e","n","c","e">>,
      <<"D","i","d"," ","w","o","r","k">>,
      <<" ">>,
      <<"E","d","u","c","a","t","i","o","n"," ","a","n","d"," ","S","k","i","l","l","s">>,
      <<" ","a","t"," ","A","c","m","e"," ">> }

\* the resumes of at most MaxLines lines, with and without a final newline
SplitterTexts ==
    {Join(ls, <<"\n">>) \o tail :
        ls \in SeqsUpTo(ResumeLines, MaxLines), tail \in {<<>>, <<"\n">>}}

InitSplit ==
    /\ ServiceIdle
    /\ SuggesterIdle
    /\ MatcherIdle
    /\ ScorerIdle
    /\ ExtractorIdle
    /\ sectionText \in SplitterTexts
    /\ splitSections = <<>>
    /\ phase = "input"

SplitStep ==
    /\ phase = "input"
    /\ splitSections' = fallback_section_analysis(sectionText)
    /\ phase' = "done"
    /\ UNCHANGED <<sectionText, serviceVars, suggesterVars,
                   matcherVars, scorerVars, extractorVars>>

NextSplit == SplitStep

SpecSplit == InitSplit /\ [][NextSplit]_vars

-----------------------------------------------------------------------------
(* The section splitter on header lines that name two sections *)

\* 'Built things'
LineBuiltThings ==
    <<"B","u","i","l","t"," ","t","h","i","n","g","s">>

\* 'Did work'
LineDidWork ==
    <<"D","i","d"," ","w","o","r","k">>

\* the header lines 'X And Y' for synonyms X, Y of two different sections
TwoSectionHeaders ==
    {Title(section_keywords[a].synonyms[x] \o <<" ","a","n","d"," ">>
           \o section_keywords[b].synonyms[y]) :
        <<a, x, b, y>> \in
            {q \in (1..Len(section_keywords)) \X (1..5) \X (1..Len(section_keywords)) \X (1..5) :
                /\ q[1] # q[3]
                /\ q[2] <= Len(section_keywords[q[1]].synonyms)
                /\ q[4] <= Len(section_keywords[q[3]].synonyms)}}

\* a content line, a header line that names two sections, a content line
TieTexts ==
    {Join(<<LineBuiltThings, h, LineDidWork>>, <<"\n">>) : h \in TwoSectionHeaders}

InitTie ==
    /\ ServiceIdle
    /\ SuggesterIdle
    /\ MatcherIdle
    /\ ScorerIdle
    /\ ExtractorIdle
    /\ sectionText \in TieTexts
    /\ splitSections = <<>>
    /\ phase = "input"

SpecTie == InitTie /\ [][NextSplit]_vars

-----------------------------------------------------------------------------
(* The section splitter on resumes with blank lines *)

\* '', '\t ', 'Built things', 'Experience', ' at Acme '
MixedLines ==
    { <<>>,
      <<"\t", " ">>,
      <<"B","u","i","l","t"," ","t","h","i","n","g","s">>,
      <<"E","x","p","e","r","i","e","n","c","e">>,
      <<" ","a","t"," ","A","c","m","e"," ">> }

\* the resumes of at most MaxMixedLines such lines, with and without a final
\* newline
MixedTexts ==
    {Join(ls, <<"\n">>) \o tail :
        ls \in SeqsUpTo(MixedLines, MaxMixedLines), tail \in {<<>>, <<"\n">>}}

InitBlank ==
    /\ ServiceIdle
    /\ SuggesterIdle
    /\ MatcherIdle
    /\ ScorerIdle
    /\ ExtractorIdle
    /\ sectionText \in MixedTexts
    /\ splitSections = <<>>
    /\ phase = "input"

SpecBlank == InitBlank /\ [][NextSplit]_vars

-----------------------------------------------------------------------------
(* The keyword matcher on resumes longer than the context window *)

\* the lengths of the text between two occurrences of the keyword
GapLengths == {0, ContextWindow - 1, ContextWindow, ContextWindow + 1}

\* a text of n characters without the keyword: digits, and a blank at every
\* fifth place
Gap(n) ==
    Concat([j \in 1..n |-> IF j % 5 = 0 THEN <<" ">>
                           ELSE <<CHOOSE d \in Digits : d = ToString(j % 10)>>])

\* the resume made of the gaps gs with the word w between them
RECURSIVE Interleave(_, _)
Interleave(gs, w) ==
    IF Len(gs) = 1 THEN Gap(gs[1])
    ELSE Gap(gs[1]) \o w \o Interleave(Tail(gs), w)

LongResumes ==
    {Interleave(gs, <<"a","B">>) :
        gs \in UNION {[1..(n + 1) -> GapLengths] : n \in 0..MaxOccurrences}}

InitContext ==
    /\ ServiceIdle
    /\ SuggesterIdle
    /\ ScorerIdle
    /\ ExtractorIdle
    /\ SplitterIdle
    /\ resumeText \in LongResumes
    /\ keywordList \in {<<k>> : k \in {<<"a","b">>, <<"A","B">>}}
    /\ matchResult = <<>>
    /\ phase = "input"

SpecContext == InitContext /\ [][NextMatch]_vars

-----------------------------------------------------------------------------
(* The /resume router *)

\* an element of a parsed JSON array is an object (a dict)
is_object(item) == "number" \notin DOMAIN item

\* kw['keyword'] raises for an element that is no object or has no such key
subscript_raises(keywords_data) ==
    \E i \in 1..Len(keywords_data) : "keyword" \notin DOMAIN keywords_data[i]

\* str(e) of the exception kw['keyword'] raises: a KeyError for an object, a
\* TypeError for a number
subscript_error(keywords_data) ==
    LET i == CHOOSE j \in 1..Len(keywords_data) :
                 /\ "keyword" \notin DOMAIN keywords_data[j]
                 /\ \A k \in 1..(j - 1) : "keyword" \in DOMAIN keywords_data[k]
    IN  IF is_object(keywords_data[i]) THEN "'keyword'"
        ELSE "'int' object is not subscriptable"

\* a variant of the generic failure that leaves the message of the error out
FailureWithoutMessage(endpoint, prefix, message) ==
    [status |-> 500, endpoint |-> endpoint, detail |-> [prefix |-> prefix, message |-> ""]]

\* HTTPException(status_code=500, detail=f"{prefix}: {str(e)}"): the generic
\* failure
Failure(endpoint, prefix, message) ==
    [status |-> 500, endpoint |-> endpoint, detail |-> [prefix |-> prefix, message |-> message]]

\* a variant that maps every keyword of the analysis to its frequency
keyword_matches_of_all(keyword_analysis) ==
    [i \in 1..Len(keyword_analysis) |->
        [keyword   |-> keyword_analysis[i].keyword,
         frequency |-> keyword_analysis[i].frequency]]

\* {kw: data['frequency'] for kw, data in keyword_analysis.items() if data['found']}
RECURSIVE keyword_matches_of(_)
keyword_matches_of(keyword_analysis) ==
    IF keyword_analysis = <<>> THEN <<>>
    ELSE (IF Head(keyword_analysis).found
          THEN <<[keyword   |-> Head(keyword_analysis).keyword,
                  frequency |-> Head(keyword_analysis).frequency]>>
          ELSE <<>>)
         \o keyword_matches_of(Tail(keyword_analysis))

\* what a handler did: the response it returns, the keyword records it got
\* from extract_keywords_from_job_description, and the adapter operations it
\* invoked, in order
Handled(resp, keywords_data, invocations) ==
    [response |-> resp, keywords_data |-> keywords_data, invocations |-> invocations]

\* POST /resume/analyze
analyze_resume(c, req) ==
    LET keywords_data ==
            extract_keywords_from_job_description(c, req.kw_reply, req.job_description)
        extraction == Invocation("extract_keywords_from_job_description", c, req.kw_reply)
    IN  IF subscript_raises(keywords_data)
        THEN Handled(Failure("analyze", "Analysis failed", subscript_error(keywords_data)),
                     keywords_data, <<extraction>>)
        ELSE
        LET keywords == [i \in 1..Len(keywords_data) |-> keywords_data[i].keyword]
            keyword_analysis == analyze_resume_keywords(req.resume_text, keywords)
        IN  Handled(
            [status           |-> 200,
             endpoint         |-> "analyze",
             original_resume  |-> req.resume_text,
             tailored_resume  |-> tailor_resume(c, req.tailor_reply, req.resume_text),
             keyword_matches  |-> keyword_matches_of(keyword_analysis),
             missing_keywords |-> missing_keywords_of(keyword_analysis),
             suggestions      |->
                 generate_improvement_suggestions(c, req.sugg_reply, keyword_analysis),
             confidence_score |->
                 calculate_confidence_score(keyword_analysis, keywords_data)],
            keywords_data,
            <<extraction,
              Invocation("tailor_resume", c, req.tailor_reply),
              Invocation("generate_improvement_suggestions", c, req.sugg_reply)>>)

\* section_data.get(...) raises for an element that is no object
get_raises(sections_data) ==
    \E i \in 1..Len(sections_data) : ~is_object(sections_data[i])

\* str(e) of the AttributeError section_data.get raises
get_error == "'int' object has no attribute 'get'"

\* the sections the loop of lines 189-212 gets through: all of them, or those
\* before the first element that is no object
sections_done(sections_data) ==
    IF get_raises(sections_data)
    THEN (CHOOSE i \in 1..Len(sections_data) :
              /\ ~is_object(sections_data[i])
              /\ \A k \in 1..(i - 1) : is_object(sections_data[k])) - 1
    ELSE Len(sections_data)

\* 'Unknown'
unknown_section ==
    <<"U","n","k","n","o","w","n">>

\* section_data.get('section_name', 'Unknown')
get_section_name(section_data) ==
    IF "section_name" \in DOMAIN section_data THEN section_data.section_name
    ELSE unknown_section

\* section_data.get('content', '')
get_content(section_data) ==
    IF "content" \in DOMAIN section_data THEN section_data.content ELSE <<>>

\* keyword_analysis.get(keyword, {}) for a keyword the analysis holds
analysis_of(keyword_analysis, keyword) ==
    keyword_analysis[CHOOSE i \in 1..Len(keyword_analysis) :
                         keyword_analysis[i].keyword = keyword]

\* improvements[:3]
SectionImprovements == 3

\* keywords_data[:5]
TrendingSkills == 5

\* a > b on fractions
FracGt(a, b) == ~FracLeq(a, b)

\* "High" if overall_score > high else "Medium" if overall_score > medium
\* else "Low", the thresholds in tenths
level(overall_score, high, medium) ==
    IF FracGt(overall_score, Fraction(high, 10)) THEN "High"
    ELSE IF FracGt(overall_score, Fraction(medium, 10)) THEN "Medium"
    ELSE "Low"

\* the reply of the backend to the i-th call of one kind that a request makes
ReplyAt(replies, i) == replies[((i - 1) % Len(replies)) + 1]

\* the adapter operations invoked for the sections i..n, lines 194-205
RECURSIVE section_invocations(_, _, _, _)
section_invocations(c, req, i, n) ==
    IF i > n THEN <<>>
    ELSE <<Invocation("tailor_resume", c, ReplyAt(req.tailor_replies, i)),
           Invocation("generate_improvement_suggestions", c, ReplyAt(req.sugg_replies, i))>>
         \o section_invocations(c, req, i + 1, n)

\* POST /resume/detailed-analysis
detailed_resume_analysis(c, req) ==
    LET keywords_data ==
            extract_keywords_from_job_description(c, req.kw_reply, req.job_description)
        extraction == Invocation("extract_keywords_from_job_description", c, req.kw_reply)
    IN  IF subscript_raises(keywords_data)
        THEN Handled(Failure("detailed", "Detailed analysis failed",
                             subscript_error(keywords_data)),
                     keywords_data, <<extraction>>)
        ELSE
        LET keywords == [i \in 1..Len(keywords_data) |-> keywords_data[i].keyword]
            sections_data == analyze_resume_sections(c, req.sections_reply, req.resume_text)
            keyword_analysis == analyze_resume_keywords(req.resume_text, keywords)
            invoked ==
                <<extraction, Invocation("analyze_resume_sections", c, req.sections_reply)>>
                \o section_invocations(c, req, 1, sections_done(sections_data))
        IN  IF get_raises(sections_data)
            THEN Handled(Failure("detailed", "Detailed analysis failed", get_error),
                         keywords_data, invoked)
            ELSE
            LET overall_score == calculate_confidence_score(keyword_analysis, keywords_data)
            IN  Handled(
                [status           |-> 200,
                 endpoint         |-> "detailed",
                 sections         |->
                     [i \in 1..Len(sections_data) |->
                         [section_name     |-> get_section_name(sections_data[i]),
                          original_content |-> get_content(sections_data[i]),
                          tailored_content |->
                              tailor_resume(c, ReplyAt(req.tailor_replies, i),
                                            get_content(sections_data[i])),
                          improvements     |->
                              Take(generate_improvement_suggestions(
                                       c, ReplyAt(req.sugg_replies, i), keyword_analysis),
                                   SectionImprovements)]],
                 keyword_analysis |->
                     [i \in 1..Len(keywords_data) |->
                         LET a == analysis_of(keyword_analysis, keywords_data[i].keyword)
                         IN  [keyword         |-> keywords_data[i].keyword,
                              importance      |-> get_importance(keywords_data[i]),
                              found_in_resume |-> a.found,
                              frequency       |-> a.frequency,
                              context         |-> a.context]],
                 overall_score    |-> overall_score,
                 recommendations  |->
                     generate_improvement_suggestions(
                         c, ReplyAt(req.sugg_replies, Len(sections_data) + 1),
                         keyword_analysis),
                 industry_insights |->
                     [trending_skills   |-> Take(keywords, TrendingSkills),
                      market_demand     |-> level(overall_score, 7, 4),
                      competition_level |-> level(overall_score, 8, 5)]],
                keywords_data,
                Append(invoked,
                       Invocation("generate_improvement_suggestions", c,
                                  ReplyAt(req.sugg_replies, Len(sections_data) + 1))))

\* GET /resume/keywords
extract_keywords(c, req) ==
    LET keywords ==
            extract_keywords_from_job_description(c, req.kw_reply, req.job_description)
    IN  Handled([status |-> 200, endpoint |-> "keywords", keywords |-> keywords],
                keywords,
                <<Invocation("extract_keywords_from_job_description", c, req.kw_reply)>>)

-----------------------------------------------------------------------------
(* The service: requests arrive, are handled and answered, one at a time *)

\* 'I use Python daily'
ResumeDaily ==
    <<"I"," ","u","s","e"," ","P","y","t","h","o","n"," ","d",
    "a","i","l","y">>

\* 'JAVA, java and Jira'
ResumeJava ==
    <<"J","A","V","A",","," ","j","a","v","a"," ","a","n","d",
    " ","J","i","r","a">>

\* 'I know Python and Docker'
JobPythonDocker ==
    <<"I"," ","k","n","o","w"," ","P","y","t","h","o","n",
    " ","a","n","d"," ","D","o","c","k","e","r">>

\* 'Java, teamwork, Jira'
JobJava ==
    <<"J","a","v","a",","," ","t","e","a","m","w","o","r","k",",",
    " ","J","i","r","a">>

\* 'Python'
WordPython ==
    <<"P","y","t","h","o","n">>

\* 'Java'
WordJava ==
    <<"J","a","v","a">>

\* a completion with no bracketed part
TextProse ==
    <<"I"," ","c","a","n","n","o","t"," ","h","e","l","p"," ",
    "w","i","t","h"," ","t","h","a","t",".">>

\* a completion whose bracketed part is not JSON
TextBadJson ==
    <<"[","p","y","t","h","o","n",","," ","j","a","v","a","]">>

\* a completion that is a JSON array of two keyword records
TextRecords ==
    <<"[","{","\"","k","e","y","w","o","r","d","\"",":"," ",
    "\"","P","y","t","h","o","n","\"",","," ","\"","i","m","p","o","r","t",
    "a","n","c","e","\"",":"," ","0",".","8",","," ","\"","c","a","t","e","g",
    "o","r","y","\"",":"," ","\"","t","e","c","h","n","i","c","a","l",
    "\"","}",","," ","{","\"","k","e","y","w","o","r","d","\"",":"," ",
    "\"","J","a","v","a","\"",","," ","\"","i","m","p","o","r","t","a","n",
    "c","e","\"",":"," ","0",".","2",","," ","\"","c","a","t","e","g","o","r",
    "y","\"",":"," ","\"","t","e","c","h","n","i","c","a","l","\"","}","]">>

\* a completion that holds a JSON array after some words
TextEmbedded ==
    <<"H","e","r","e"," ","y","o","u"," ","g","o",":"," ","[",
    "{","\"","k","e","y","w","o","r","d","\"",":"," ","\"","J","a","v","a",
    "\"",","," ","\"","i","m","p","o","r","t","a","n","c","e","\"",":"," ",
    "0",".","8",","," ","\"","c","a","t","e","g","o","r","y","\"",":"," ",
    "\"","t","e","c","h","n","i","c","a","l","\"","}","]">>

\* a completion that is a JSON array of numbers
TextNumbers ==
    <<"[","1",","," ","2","]">>

\* a completion that is a JSON array of an object with no keyword field
TextNoKeyword ==
    <<"[","{","\"","s","k","i","l","l","\"",":"," ","\"","P",
    "y","t","h","o","n","\"",","," ","\"","i","m","p","o","r","t","a","n","c",
    "e","\"",":"," ","0",".","8","}","]">>

\* a short completion with white space around it
TextShort ==
    <<" "," ","A"," ","b","e","t","t","e","r"," ","r","e","s",
    "u","m","e",".","\n">>

\* a completion that lists one suggestion
TextOneSuggestion ==
    <<"S","u","r","e","!","\n","1","."," ","Q","u","a",
    "n","t","i","f","y"," ","y","o","u","r"," ","a","c","h","i","e","v","e",
    "m","e","n","t","s">>

\* a completion that lists five suggestions and a line too short to keep
TextFiveSuggestions ==
    <<"1","."," ","A","d","d"," ","t","h","e"," ","m",
    "i","s","s","i","n","g"," ","k","e","y","w","o","r","d","s","\n","2",".",
    " ","Q","u","a","n","t","i","f","y"," ","y","o","u","r"," ","a","c","h",
    "i","e","v","e","m","e","n","t","s","\n","-"," ","U","s","e"," ","s","t",
    "r","o","n","g"," ","a","c","t","i","o","n"," ","v","e","r","b","s","\n",
    "3","."," ","T","o","o"," ","s","h","o","r","t","\n","\n"," "," ","4",".",
    " ","K","e","e","p"," ","t","h","e"," ","s","u","m","m","a","r","y"," ",
    "b","r","i","e","f","\n","5","."," ","L","i","s","t"," ","y","o","u","r",
    " ","c","e","r","t","i","f","i","c","a","t","i","o","n","s">>

\* a completion with no numbered or bulleted line
TextNoList ==
    <<"Y","o","u","r"," ","r","e","s","u","m","e"," ","l","o",
    "o","k","s"," ","f","i","n","e",".">>

\* a completion that lists eight suggestions
TextEightSuggestions ==
    <<"1","."," ","S","u","g","g","e","s","t","i","o",
    "n"," ","n","u","m","b","e","r"," ","1","\n","2","."," ","S","u","g","g",
    "e","s","t","i","o","n"," ","n","u","m","b","e","r"," ","2","\n","3",".",
    " ","S","u","g","g","e","s","t","i","o","n"," ","n","u","m","b","e","r",
    " ","3","\n","4","."," ","S","u","g","g","e","s","t","i","o","n"," ","n",
    "u","m","b","e","r"," ","4","\n","5","."," ","S","u","g","g","e","s","t",
    "i","o","n"," ","n","u","m","b","e","r"," ","5","\n","6","."," ","S","u",
    "g","g","e","s","t","i","o","n"," ","n","u","m","b","e","r"," ","6","\n",
    "7","."," ","S","u","g","g","e","s","t","i","o","n"," ","n","u","m","b",
    "e","r"," ","7","\n","8","."," ","S","u","g","g","e","s","t","i","o","n",
    " ","n","u","m","b","e","r"," ","8">>

\* 'Summary\nBuilt Java things\nExperience\nDid work\n'
ResumeSections ==
    <<"S","u","m","m","a","r","y","\n","B","u","i","l","t",
    " ","J","a","v","a"," ","t","h","i","n","g","s","\n","E","x","p","e","r",
    "i","e","n","c","e","\n","D","i","d"," ","w","o","r","k","\n">>

\* 'Skills'
WordSkills ==
    <<"S","k","i","l","l","s">>

\* a completion that is a JSON array of one section
TextSections ==
    <<"[","{","\"","s","e","c","t","i","o","n","_","n","a",
    "m","e","\"",":"," ","\"","S","k","i","l","l","s","\"",","," ","\"","c",
    "o","n","t","e","n","t","\"",":"," ","\"","J","a","v","a","\"","}","]">>

\* a completion that is a JSON array of an object with no section fields
TextNoContent ==
    <<"[","{","\"","t","i","t","l","e","\"",":"," ","\"","S",
    "k","i","l","l","s","\"","}","]">>

\* a completion that is a JSON array of one section and a number
TextSectionThenNumber ==
    <<"[","{","\"","s","e","c","t","i","o","n","_",
    "n","a","m","e","\"",":"," ","\"","S","k","i","l","l","s","\"",","," ",
    "\"","c","o","n","t","e","n","t","\"",":"," ","\"","J","a","v","a",
    "\"","}",","," ","1","]">>

Resumes == {ResumeDaily, ResumeJava}

JobDescriptions == {JobPythonDocker, JobJava}

\* a completion of TailorMinLen + extra characters
Filler(extra) == [i \in 1..(TailorMinLen + extra) |-> "x"]

KeywordBodies ==
    { EmptyBody,
      Body(TextProse, "none", <<>>),
      Body(TextBadJson, "invalid", <<>>),
      Body(TextRecords, "array",
           <<KeywordRecord(WordPython, 8, "technical"),
             KeywordRecord(WordJava, 2, "technical")>>),
      Body(TextEmbedded, "embedded", <<KeywordRecord(WordJava, 8, "technical")>>),
      Body(TextNumbers, "array", <<[number |-> 1], [number |-> 2]>>),
      Body(TextNoKeyword, "array", <<[skill |-> WordPython, importance |-> 8]>>) }

TailorBodies ==
    { EmptyBody,
      Body(TextShort, "none", <<>>),
      Body(Filler(0), "none", <<>>),
      Body(Filler(1), "none", <<>>) }

SuggestionBodies ==
    { EmptyBody,
      Body(TextNoList, "none", <<>>),
      Body(TextOneSuggestion, "none", <<>>),
      Body(TextFiveSuggestions, "none", <<>>),
      Body(TextEightSuggestions, "none", <<>>) }

SectionBodies ==
    { EmptyBody,
      Body(TextProse, "none", <<>>),
      Body(TextSections, "array", <<[section_name |-> WordSkills, content |-> WordJava]>>),
      Body(TextNoContent, "array", <<[title |-> WordSkills]>>),
      Body(TextNumbers, "array", <<[number |-> 1], [number |-> 2]>>),
      Body(TextSectionThenNumber, "array",
           <<[section_name |-> WordSkills, content |-> WordJava], [number |-> 1]>>) }

\* the replies the backend can give to a call whose completions are bodies
Replies(bodies) ==
    [transport : {"ok"}, body : bodies]
    \cup [transport : FailedTransports, body : {EmptyBody}]

AnalyzeRequests ==
    [endpoint        : {"analyze"},
     resume_text     : Resumes,
     job_description : JobDescriptions,
     kw_reply        : Replies(KeywordBodies),
     tailor_reply    : Replies(TailorBodies),
     sugg_reply      : Replies(SuggestionBodies)]

KeywordsRequests ==
    [endpoint        : {"keywords"},
     job_description : JobDescriptions,
     kw_reply        : Replies(KeywordBodies)]

\* the calls of one kind that a request for a detailed analysis makes get
\* their replies in turn
DetailedRequests ==
    [endpoint        : {"detailed"},
     resume_text     : {ResumeSections, ResumeJava},
     job_description : {JobJava},
     kw_reply        : { [transport |-> "ok", body |-> b] :
                            b \in { Body(TextEmbedded, "embedded",
                                         <<KeywordRecord(WordJava, 8, "technical")>>),
                                    Body(TextNumbers, "array",
                                         <<[number |-> 1], [number |-> 2]>>) } }
                       \cup {[transport |-> "timeout", body |-> EmptyBody]},
     sections_reply  : Replies(SectionBodies),
     tailor_replies  : [1..2 -> { [transport |-> "ok", body |-> Body(Filler(1), "none", <<>>)],
                                  [transport |-> "timeout", body |-> EmptyBody] }],
     sugg_replies    : [1..3 -> { [transport |-> "ok",
                                   body |-> Body(TextOneSuggestion, "none", <<>>)],
                                  [transport |-> "unreachable", body |-> EmptyBody] }]]

\* the module-level ai_service = AIService() of the router
Init ==
    /\ \E probe \in ProbeOutcomes, api_key \in ApiKeys, openai_constructs \in BOOLEAN :
           /\ client = select_client(probe, api_key, openai_constructs)
           /\ ollamaReachable = check_ollama_connection(probe)
    /\ environment = NoEnvironment
    /\ probes = 1
    /\ httpRequest = NoRequest
    /\ httpResponse = NoResponse
    /\ extracted = <<>>
    /\ prevKeywords = <<>>
    /\ backendCalls = <<>>
    /\ UploadIdle
    /\ MatcherIdle
    /\ SuggesterIdle
    /\ ScorerIdle
    /\ ExtractorIdle
    /\ SplitterIdle
    /\ phase = "idle"

\* a request arrives; the replies the backend would give to its calls are
\* fixed with it
Receive ==
    /\ phase = "idle"
    /\ httpRequest' \in AnalyzeRequests \cup KeywordsRequests \cup DetailedRequests
    /\ httpResponse' = NoResponse
    /\ phase' = "handling"
    /\ UNCHANGED <<environment, client, extracted, prevKeywords, backendCalls, ollamaReachable, probes,
                   uploadVars, matcherVars, suggesterVars, scorerVars, extractorVars, splitterVars>>

\* the handler's run h ends the request: its response is ready, and the
\* extraction it made is noted
Finish(h) ==
    /\ httpResponse' = h.response
    /\ extracted' = <<[job_description |-> httpRequest.job_description,
                      keywords        |-> h.keywords_data]>>
    /\ backendCalls' = h.invocations
    /\ phase' = "done"
    /\ UNCHANGED <<environment, client, httpRequest, prevKeywords, ollamaReachable, probes,
                   uploadVars, matcherVars, suggesterVars, scorerVars, extractorVars, splitterVars>>

HandleAnalyze ==
    /\ phase = "handling"
    /\ httpRequest.endpoint = "analyze"
    /\ Finish(analyze_resume(client, httpRequest))

HandleKeywords ==
    /\ phase = "handling"
    /\ httpRequest.endpoint = "keywords"
    /\ Finish(extract_keywords(client, httpRequest))

HandleDetailed ==
    /\ phase = "handling"
    /\ httpRequest.endpoint = "detailed"
    /\ Finish(detailed_resume_analysis(client, httpRequest))

\* a variant that probes the backend again when a request is done, and
\* switches to it
DeliverReprobing ==
    /\ phase = "done"
    /\ httpRequest' = NoRequest
    /\ httpResponse' = NoResponse
    /\ extracted' = <<>>
    /\ prevKeywords' = IF client = "none" THEN extracted ELSE prevKeywords
    /\ backendCalls' = <<>>
    /\ client' = IF ollamaReachable THEN "ollama" ELSE client
    /\ probes' = 2
    /\ phase' = "idle"
    /\ UNCHANGED <<environment, ollamaReachable, uploadVars, matcherVars, suggesterVars,
                   scorerVars, extractorVars,
                   splitterVars>>

\* the response is sent; nothing of the request is kept by the service (the
\* extraction of a service without backend is remembered for comparison)
Deliver ==
    /\ phase = "done"
    /\ httpRequest' = NoRequest
    /\ httpResponse' = NoResponse
    /\ extracted' = <<>>
    /\ prevKeywords' = IF client = "none" THEN extracted ELSE prevKeywords
    /\ backendCalls' = <<>>
    /\ phase' = "idle"
    /\ UNCHANGED <<environment, client, ollamaReachable, probes, uploadVars,
                   matcherVars, suggesterVars, scorerVars, extractorVars, splitterVars>>

Next ==
    \/ Receive
    \/ HandleAnalyze
    \/ HandleKeywords
    \/ HandleDetailed
    \/ Deliver

Spec == Init /\ [][Next]_vars

\* the Ollama endpoint comes up or goes down while the service runs
BackendChanges ==
    /\ ollamaReachable' = ~ollamaReachable
    /\ UNCHANGED <<environment, client, httpRequest, httpResponse, extracted, prevKeywords, backendCalls,
                   probes, phase, uploadVars, matcherVars, suggesterVars, scorerVars, extractorVars,
                   splitterVars>>

NextMode ==
    \/ Next
    \/ BackendChanges

\* the service in an environment whose backend comes and goes
SpecMode == Init /\ [][NextMode]_vars

-----------------------------------------------------------------------------
(* The construction of the service, with its environment noted, and the     *)
(* keyword requests the constructed service answers                         *)

InitConstruct ==
    /\ \E probe \in ProbeOutcomes, api_key \in ApiKeys, openai_constructs \in BOOLEAN :
           /\ environment = [probe             |-> probe,
                             api_key           |-> api_key,
                             openai_constructs |-> openai_constructs]
           /\ client = select_client(probe, api_key, openai_constructs)
           /\ ollamaReachable = check_ollama_connection(probe)
    /\ probes = 1
    /\ httpRequest = NoRequest
    /\ httpResponse = NoResponse
    /\ extracted = <<>>
    /\ prevKeywords = <<>>
    /\ backendCalls = <<>>
    /\ UploadIdle
    /\ MatcherIdle
    /\ SuggesterIdle
    /\ ScorerIdle
    /\ ExtractorIdle
    /\ SplitterIdle
    /\ phase = "idle"

\* a request for the keywords of a job description arrives
ReceiveKeywords ==
    /\ phase = "idle"
    /\ httpRequest' \in KeywordsRequests
    /\ httpResponse' = NoResponse
    /\ phase' = "handling"
    /\ UNCHANGED <<environment, client, extracted, prevKeywords, backendCalls,
                   ollamaReachable, probes, uploadVars, matcherVars, suggesterVars,
                   scorerVars, extractorVars, splitterVars>>

NextConstruct ==
    \/ ReceiveKeywords
    \/ HandleKeywords
    \/ Deliver

SpecConstruct == InitConstruct /\ [][NextConstruct]_vars

-----------------------------------------------------------------------------
(* generate_improvement_suggestions on its own: keyword analyses of a few   *)
(* keywords, every client mode and every reply of the backend              *)

\* the keywords of the analyses, in the order of the dictionary
AnalysedKeywords ==
    <<<<"a","w","s">>, <<"g","i","t">>, <<"s","q","l">>, <<"j","a","v","a">>,
      <<"r","u","s","t">>, <<"j","i","r","a">>, <<"r","e","a","c","t">>,
      <<"l","i","n","u","x">>>>

\* the keyword analyses of the first n keywords, each found or not
KeywordAnalyses ==
    UNION {
        {[i \in 1..n |-> [keyword   |-> AnalysedKeywords[i],
                          found     |-> f[i],
                          frequency |-> IF f[i] THEN 1 ELSE 0,
                          context   |-> <<>>]] : f \in [1..n -> BOOLEAN]}
        : n \in 0..MaxAnalysed}

InitSuggest ==
    /\ ServiceIdle
    /\ MatcherIdle
    /\ ScorerIdle
    /\ ExtractorIdle
    /\ SplitterIdle
    /\ keywordAnalysis \in KeywordAnalyses
    /\ suggestionCall = <<>>
    /\ phase = "input"

\* one call of generate_improvement_suggestions by a service in the mode c,
\* to which the backend replies with reply
SuggestStep ==
    /\ phase = "input"
    /\ \E c \in {"ollama", "openai", "none"} : \E reply \in Replies(SuggestionBodies) :
          suggestionCall' =
              [client |-> c,
               reply  |-> reply,
               result |-> generate_improvement_suggestions(c, reply, keywordAnalysis)]
    /\ phase' = "done"
    /\ UNCHANGED <<keywordAnalysis, serviceVars, matcherVars, scorerVars, extractorVars,
                   splitterVars>>

NextSuggest == SuggestStep

SpecSuggest == InitSuggest /\ [][NextSuggest]_vars

-----------------------------------------------------------------------------
(* POST /resume/analyze-file, step by step *)

\* a variant in which the handler's except clause turns a rejection into the
\* generic failure
RejectionAsFailure(detail) ==
    [status |-> 500, endpoint |-> "analyze-file",
     detail |-> [prefix |-> "File processing failed", message |-> detail]]

\* HTTPException(status_code=400, detail=...): a rejection of the input
Rejection(detail) == [status |-> 400, endpoint |-> "analyze-file", detail |-> detail]

\* the text extract_text_from_file returns: None, or the stripped text
NoText == [kind |-> "none"]

Extracted(text) == [kind |-> "text", text |-> Strip(text)]

\* the file names of the uploads: '', 'cv.pdf', 'CV.TXT', 'cv.docx',
\* 'cv.exe', '.pdf', 'cv'
FileNames ==
    { <<>>,
      <<"c","v",".","p","d","f">>,
      <<"C","V",".","T","X","T">>,
      <<"c","v",".","d","o","c","x">>,
      <<"c","v",".","e","x","e">>,
      <<".","p","d","f">>,
      <<"c","v">> }

\* the sizes of the uploads, in bytes
FileSizes == {1, MaxFileBytes, MaxFileBytes + 1}

\* what the extraction of the text of an upload can give
Extractions ==
    { NoText,
      Extracted(<<>>),
      Extracted(<<" ","\n">>),
      Extracted(ResumeDaily),
      Extracted(<<"J","a","v","a"," ","\r","\n"," ",Nul," ","J","i","r","a","\n">>),
      Extracted(<<Nul>>) }

UploadRequests ==
    [endpoint        : {"analyze-file"},
     filename        : FileNames,
     read_fails      : BOOLEAN,
     file_size       : FileSizes,
     extraction      : Extractions,
     job_description : {JobJava},
     kw_reply        : { [transport |-> "ok",
                          body |-> Body(TextEmbedded, "embedded",
                                        <<KeywordRecord(WordJava, 8, "technical")>>)],
                         [transport |-> "ok",
                          body |-> Body(TextNumbers, "array",
                                        <<[number |-> 1], [number |-> 2]>>)],
                         [transport |-> "timeout", body |-> EmptyBody] },
     tailor_reply    : {[transport |-> "timeout", body |-> EmptyBody]},
     sugg_reply      : {[transport |-> "unreachable", body |-> EmptyBody]}]

\* the frame of a step of the upload handler
UploadFrame ==
    UNCHANGED <<environment, client, httpRequest, prevKeywords, ollamaReachable, probes,
                matcherVars, suggesterVars, scorerVars, extractorVars, splitterVars>>

\* an upload arrives
UploadArrives ==
    /\ phase = "idle"
    /\ httpRequest' \in UploadRequests
    /\ httpResponse' = NoResponse
    /\ tempFile' = "none"
    /\ uploadText' = <<>>
    /\ uploadLog' = <<>>
    /\ phase' = "name"
    /\ UNCHANGED <<environment, client, extracted, prevKeywords, backendCalls, ollamaReachable, probes,
                   matcherVars, suggesterVars, scorerVars, extractorVars, splitterVars>>

\* the step taken is logged; the handler goes on at next, or ends with resp
UploadStep(step, next, resp) ==
    /\ uploadLog' = Append(uploadLog, step)
    /\ httpResponse' = resp
    /\ phase' = next

\* lines 104-106: if not resume_file.filename
CheckFileName ==
    /\ phase = "name"
    /\ IF httpRequest.filename = <<>>
       THEN UploadStep("name", "answered", Rejection("No file provided"))
       ELSE UploadStep("name", "format", NoResponse)
    /\ UNCHANGED <<tempFile, uploadText, extracted, backendCalls>>
    /\ UploadFrame

\* a variant that goes on to save the upload whatever its format
DetectFormatLenient ==
    /\ phase = "format"
    /\ UploadStep("format", "save", NoResponse)
    /\ UNCHANGED <<tempFile, uploadText, extracted, backendCalls>>
    /\ UploadFrame

\* lines 108-111: detect_file_format
DetectFormat ==
    /\ phase = "format"
    /\ IF detect_file_format(httpRequest.filename) = "none"
       THEN UploadStep("format", "answered", Rejection("Unsupported file format"))
       ELSE UploadStep("format", "save", NoResponse)
    /\ UNCHANGED <<tempFile, uploadText, extracted, backendCalls>>
    /\ UploadFrame

\* lines 113-117: the temporary file is created, then the upload is read and
\* written to it; a failure of the read or the write ends in the handler's
\* except clause, lines 151-153
SaveTemporaryFile ==
    /\ phase = "save"
    /\ tempFile' = "exists"
    /\ IF httpRequest.read_fails
       THEN UploadStep("save", "answered",
                       Failure("analyze-file", "File processing failed", "read failed"))
       ELSE UploadStep("save", "size", NoResponse)
    /\ UNCHANGED <<uploadText, extracted, backendCalls>>
    /\ UploadFrame

\* lines 121-122: validate_file_size
ValidateSize ==
    /\ phase = "size"
    /\ IF ~validate_file_size(httpRequest.file_size)
       THEN UploadStep("size", "finally", Rejection("File too large (max 10MB)"))
       ELSE UploadStep("size", "extract", NoResponse)
    /\ UNCHANGED <<tempFile, uploadText, extracted, backendCalls>>
    /\ UploadFrame

\* lines 124-127: extract_text_from_file; if not resume_text
ExtractText ==
    /\ phase = "extract"
    /\ IF httpRequest.extraction.kind = "none" \/ httpRequest.extraction.text = <<>>
       THEN /\ UploadStep("extract", "finally",
                          Rejection("Could not extract text from file"))
            /\ uploadText' = <<>>
       ELSE /\ UploadStep("extract", "analyze", NoResponse)
            /\ uploadText' = httpRequest.extraction.text
    /\ UNCHANGED <<tempFile, extracted, backendCalls>>
    /\ UploadFrame

\* lines 129-142: clean_text, then analyze_resume on the cleaned text; what
\* analyze_resume returns or raises is the outcome
AnalyzeText ==
    /\ phase = "analyze"
    /\ LET resume_text == clean_text(uploadText)
           h == analyze_resume(client,
                    [resume_text     |-> resume_text,
                     job_description |-> httpRequest.job_description,
                     kw_reply        |-> httpRequest.kw_reply,
                     tailor_reply    |-> httpRequest.tailor_reply,
                     sugg_reply      |-> httpRequest.sugg_reply])
       IN  /\ uploadText' = resume_text
           /\ UploadStep("analyze", "finally", h.response)
           /\ extracted' = <<[job_description |-> httpRequest.job_description,
                             keywords        |-> h.keywords_data]>>
           /\ backendCalls' = h.invocations
    /\ UNCHANGED tempFile
    /\ UploadFrame

\* lines 144-147: the finally clause
CleanUp ==
    /\ phase = "finally"
    /\ tempFile' = IF tempFile = "exists" THEN "deleted" ELSE tempFile
    /\ uploadLog' = Append(uploadLog, "finally")
    /\ phase' = "answered"
    /\ UNCHANGED <<httpResponse, uploadText, extracted, backendCalls>>
    /\ UploadFrame

\* the response of the upload is sent
UploadDeliver ==
    /\ phase = "answered"
    /\ httpRequest' = NoRequest
    /\ httpResponse' = NoResponse
    /\ extracted' = <<>>
    /\ backendCalls' = <<>>
    /\ uploadText' = <<>>
    /\ uploadLog' = <<>>
    /\ tempFile' = "none"
    /\ phase' = "idle"
    /\ UNCHANGED <<environment, client, prevKeywords, ollamaReachable, probes,
                   matcherVars, suggesterVars, scorerVars, extractorVars, splitterVars>>

NextUpload ==
    \/ UploadArrives
    \/ CheckFileName
    \/ DetectFormat
    \/ SaveTemporaryFile
    \/ ValidateSize
    \/ ExtractText
    \/ AnalyzeText
    \/ CleanUp
    \/ UploadDeliver

\* the service handling uploads
SpecUpload == Init /\ [][NextUpload]_vars

-----------------------------------------------------------------------------
(* Claims about the confidence scorer, checked under SpecScore *)

Min(a, b) == IF a <= b THEN a ELSE b

\* the sum of the importance of the records at the indices I
RECURSIVE SumImportance(_, _)
SumImportance(recs, I) ==
    IF I = {} THEN 0
    ELSE LET i == CHOOSE j \in I : TRUE
         IN  recs[i].importance + SumImportance(recs, I \ {i})

\* the indices of the records whose keyword the match map m holds as found
MatchedRecords(m, recs) ==
    {i \in 1..Len(recs) :
        \E e \in {m[j] : j \in 1..Len(m)} : e.keyword = recs[i].keyword /\ e.found}

\* the scorer of the specification, section 4.2
ReferenceScore(m, recs) ==
    LET total   == SumImportance(recs, 1..Len(recs))
        matched == SumImportance(recs, MatchedRecords(m, recs))
    IN  IF Len(recs) = 0 \/ total = 0 THEN Zero
        ELSE IF matched >= total THEN One
        ELSE Fraction(matched, total)

\* C2: calculate_confidence_score returns a value in [0,1] for every
\* keyword-record list and every match map, and exactly 0.0 for the empty
\* record list.
C2_ScoreInUnitInterval ==
    phase = "done" =>
        /\ score.den > 0
        /\ FracLeq(Zero, score)
        /\ FracLeq(score, One)
        /\ (records = <<>> => score = Zero)

\* a score strictly between 0 and 1 has been returned
C2_Witness ==
    /\ phase = "done"
    /\ records # <<>>
    /\ ~FracLeq(score, Zero)
    /\ ~FracLeq(One, score)

\* C3: calculate_confidence_score equals the reference: 0.0 for an empty list
\* or a zero total importance, otherwise min(1.0, matched/total) with matched
\* the importance of the records whose keyword is found; the frequency of a
\* keyword plays no part beyond found.
C3_ScoreEqualsReference ==
    phase = "done" =>
        /\ FracEq(score, ReferenceScore(analysis, records))
        /\ (ReferenceScore(analysis, records) = Zero => score = Zero)

\* a keyword found more than once has been scored, with a record missing
C3_Witness ==
    /\ phase = "done"
    /\ \E i \in 1..Len(analysis) : analysis[i].frequency > 1
    /\ MatchedRecords(analysis, records) # {}
    /\ MatchedRecords(analysis, records) # 1..Len(records)
    /\ score = ReferenceScore(analysis, records)
    /\ score # Zero

\* the match map m with the entry of keyword k removed (f < 0) or set to
\* frequency f
WithEntry(m, k, f) ==
    LET Other(e) == e.keyword # k
    IN  SelectSeq(m, Other) \o
        (IF f < 0 THEN <<>>
         ELSE <<[keyword |-> k, found |-> f > 0, frequency |-> f, context |-> <<>>]>>)

\* keyword k has importance 0 in every record
ZeroImportance(recs, k) ==
    \A i \in 1..Len(recs) : recs[i].keyword = k => recs[i].importance = 0

\* C4: for a keyword k whose importance is 0 in all records, the score is
\* the same whether k is found or not found in the match map, all other
\* inputs equal.
C4_ZeroImportanceInsensitive ==
    phase = "done" =>
        \A k \in ScoreKeywords :
            ZeroImportance(records, k) =>
                \A f \in -1..MaxFrequency :
                    FracEq(calculate_confidence_score(WithEntry(analysis, k, f), records),
                           score)

\* a found keyword of importance 0 has been scored beside a keyword that counts
C4_Witness ==
    /\ phase = "done"
    /\ \E k \in ScoreKeywords :
        /\ \E i \in 1..Len(records) : records[i].keyword = k
        /\ ZeroImportance(records, k)
        /\ FoundIn(analysis, k)
    /\ score # Zero
    /\ score # One

-----------------------------------------------------------------------------
(* Claims about the keyword matcher, checked under SpecMatch *)

\* text s with the letters at the positions where up[i] holds in upper case
\* and all others in lower case
Recase(s, up) ==
    [i \in 1..Len(s) |-> IF up[i] THEN UpperChar(s[i]) ELSE LowerChar(s[i])]

\* every text that differs from s in letter case at most
CaseVariants(s) == {Recase(s, up) : up \in [1..Len(s) -> BOOLEAN]}

\* C5: analyze_resume_keywords is case-insensitive: found and frequency are
\* unchanged when the letter case of the keyword or of the resume text is
\* changed.
C5_CaseInsensitive ==
    phase = "done" =>
        LET SameAs(r) == /\ r.found = matchResult[1].found
                         /\ r.frequency = matchResult[1].frequency
        IN  /\ \A t \in CaseVariants(resumeText) :
                   SameAs(analyze_resume_keywords(t, keywordList)[1])
            /\ \A k \in CaseVariants(keywordList[1]) :
                   SameAs(analyze_resume_keywords(resumeText, <<k>>)[1])

\* a keyword has been found that occurs in the text in another case only
C5_Witness ==
    /\ phase = "done"
    /\ keywordList[1] # <<>>
    /\ matchResult[1].found
    /\ ~Contains(resumeText, keywordList[1])

\* C6: for every keyword of the result, the length of its context list is
\* min(frequency, 3).
C6_ContextsLength ==
    phase = "done" =>
        \A i \in 1..Len(matchResult) :
            Len(matchResult[i].context) = Min(matchResult[i].frequency, 3)

\* a keyword that occurs more than three times has three contexts
C6_Witness ==
    /\ phase = "done"
    /\ keywordList[1] # <<>>
    /\ matchResult[1].frequency > 3
    /\ Len(matchResult[1].context) = 3

\* C7: given an empty keyword string, analyze_resume_keywords returns for it
\* an empty/false result: found=false, frequency=0, no contexts.
C7_EmptyKeywordNotFound ==
    phase = "done" =>
        \A i \in 1..Len(matchResult) :
            matchResult[i].keyword = <<>> =>
                /\ ~matchResult[i].found
                /\ matchResult[i].frequency = 0
                /\ matchResult[i].context = <<>>

-----------------------------------------------------------------------------
(* Claims about the fallback keyword extraction, checked under SpecExtract *)

\* the terms of the three static lists, in table order
AllTerms == technical_keywords \o soft_skills \o tools

InList(term, list) == \E n \in 1..Len(list) : list[n] = term

\* the place of a term in the table
TermIndex(term) == CHOOSE n \in 1..Len(AllTerms) : AllTerms[n] = term

\* C11: the fallback keyword extraction returns a record for a term of the
\* static lists exactly when the term is a substring of the lowercased job
\* description, each term at most once, in table order (technical, soft
\* skills, tools), with importance 0.8 and category technical, 0.6 and
\* soft_skill, 0.7 and tool respectively; no other record is returned.
C11_FallbackExtractionIsTableScan ==
    phase = "done" =>
        /\ \A n \in 1..Len(AllTerms) :
              Cardinality({i \in 1..Len(foundKeywords) :
                              foundKeywords[i].keyword = AllTerms[n]})
                  = IF Contains(Lower(jobDescription), AllTerms[n]) THEN 1 ELSE 0
        /\ \A i \in 1..Len(foundKeywords) :
              LET r == foundKeywords[i]
              IN  /\ DOMAIN r = {"keyword", "importance", "category"}
                  /\ InList(r.keyword, AllTerms)
                  /\ InList(r.keyword, technical_keywords)
                         => r.importance = 8 /\ r.category = "technical"
                  /\ InList(r.keyword, soft_skills)
                         => r.importance = 6 /\ r.category = "soft_skill"
                  /\ InList(r.keyword, tools)
                         => r.importance = 7 /\ r.category = "tool"
        /\ \A i, j \in 1..Len(foundKeywords) :
              i < j => TermIndex(foundKeywords[i].keyword)
                          < TermIndex(foundKeywords[j].keyword)

\* a job description in mixed case has given records of all three
\* categories, one of them for a term inside a longer word
C11_Witness ==
    /\ phase = "done"
    /\ jobDescription # Lower(jobDescription)
    /\ \E i, j, k \in 1..Len(foundKeywords) :
          /\ foundKeywords[i].category = "technical"
          /\ foundKeywords[i].keyword = <<"a","i">>
          /\ foundKeywords[j].category = "soft_skill"
          /\ foundKeywords[k].category = "tool"

\* the number of occurrences of the keyword k in the text t from the 1-based
\* position i on, scanned left to right without overlap, both in lower case;
\* the empty keyword occurs once at every position, the end included
RECURSIVE OccurrencesFrom(_, _, _)
OccurrencesFrom(t, k, i) ==
    IF i + Len(k) - 1 > Len(t) THEN 0
    ELSE IF SubSeq(t, i, i + Len(k) - 1) = k
         THEN 1 + OccurrencesFrom(t, k, IF k = <<>> THEN i + 1 ELSE i + Len(k))
         ELSE OccurrencesFrom(t, k, i + 1)

\* C18: for every keyword and resume text, the frequency returned by
\* analyze_resume_keywords is the number of non-overlapping occurrences,
\* scanned left to right, of the keyword as a literal substring of the text
\* compared case-insensitively, and found is true exactly when frequency > 0.
C18_FrequencyCountsOccurrences ==
    phase = "done" =>
        \A i \in 1..Len(matchResult) :
            /\ matchResult[i].frequency
                   = OccurrencesFrom(Lower(resumeText), Lower(matchResult[i].keyword), 1)
            /\ matchResult[i].found <=> matchResult[i].frequency > 0

\* a keyword of two letters has been counted once in a text where it occurs a
\* second time overlapping the first, in another letter case
C18_Witness ==
    /\ phase = "done"
    /\ Len(keywordList[1]) = 2
    /\ matchResult[1].frequency = 1
    /\ MatchesAt(resumeText, keywordList[1], 0)
    /\ MatchesAt(resumeText, keywordList[1], 1)
    /\ ~Contains(resumeText, keywordList[1])

\* the 0-based offsets of the occurrences of the keyword k in the text t from
\* the 1-based position i on, scanned left to right without overlap, both in
\* lower case
RECURSIVE OccurrenceOffsets(_, _, _)
OccurrenceOffsets(t, k, i) ==
    IF i + Len(k) - 1 > Len(t) THEN <<>>
    ELSE IF SubSeq(t, i, i + Len(k) - 1) = k
         THEN <<i - 1>> \o OccurrenceOffsets(t, k, IF k = <<>> THEN i + 1 ELSE i + Len(k))
         ELSE OccurrenceOffsets(t, k, i + 1)

Max(a, b) == IF a >= b THEN a ELSE b

\* C19: the i-th context of a keyword (i <= 3) is the resume substring from
\* max(0, start_i - 50) to min(len(text), end_i + 50) of the i-th occurrence
\* in text order, with leading and trailing white space removed.
C19_ContextWindow ==
    phase = "done" =>
        \A n \in 1..Len(matchResult) :
            LET k      == matchResult[n].keyword
                starts == OccurrenceOffsets(Lower(resumeText), Lower(k), 1)
            IN  /\ Len(matchResult[n].context) = Min(Len(starts), 3)
                /\ \A i \in 1..Len(matchResult[n].context) :
                      matchResult[n].context[i]
                          = Strip(SubSeq(resumeText,
                                         Max(0, starts[i] - 50) + 1,
                                         Min(Len(resumeText), starts[i] + Len(k) + 50)))

\* a keyword that occurs four times has three contexts; the second is cut on
\* both sides by the window and by the white space at its end
C19_Witness ==
    /\ phase = "done"
    /\ matchResult[1].frequency = 4
    /\ Len(matchResult[1].context) = 3
    /\ Len(matchResult[1].context[2]) < 2 * ContextWindow + Len(keywordList[1])
    /\ Len(matchResult[1].context[2]) < Len(resumeText) - 2
    /\ matchResult[1].context[1] # matchResult[1].context[2]

-----------------------------------------------------------------------------
(* Claims about the adapter and the router, checked under Spec *)

Answered == phase = "done"

\* the backend call of the request's tailor_resume failed
TailorCallFailed == httpRequest.tailor_reply.transport \in FailedTransports

\* C1: whatever the backend answers (unreachable, timeout, non-200 status,
\* text that is not JSON, JSON of an unexpected shape), the adapter
\* operations end on a usable result and the request that called them never
\* fails because of the backend's response.
C1_BackendNeverFailsRequest ==
    Answered => httpResponse.status = 200

\* C8: with no client tailor_resume returns resume_text unchanged, and in
\* every client mode it returns resume_text unchanged when the backend call
\* fails.
C8_TailorIdentityFallback ==
    /\ (Answered /\ httpRequest.endpoint = "analyze" /\ httpResponse.status = 200) =>
        /\ client = "none" => httpResponse.tailored_resume = httpRequest.resume_text
        /\ TailorCallFailed => httpResponse.tailored_resume = httpRequest.resume_text
        /\ \A c \in {"ollama", "openai", "none"} :
             \A r \in Replies(TailorBodies) :
                (c = "none" \/ r.transport \in FailedTransports) =>
                    tailor_resume(c, r, httpRequest.resume_text) = httpRequest.resume_text
    /\ (Answered /\ httpRequest.endpoint = "detailed" /\ httpResponse.status = 200) =>
        \A i \in 1..Len(httpResponse.sections) :
            (\/ client = "none"
             \/ ReplyAt(httpRequest.tailor_replies, i).transport \in FailedTransports)
                => httpResponse.sections[i].tailored_content
                       = httpResponse.sections[i].original_content

\* a request whose tailoring call failed in a client mode with a backend has
\* been answered with the resume unchanged
C8_Witness ==
    /\ Answered
    /\ httpRequest.endpoint = "analyze"
    /\ httpResponse.status = 200
    /\ client = "ollama"
    /\ TailorCallFailed
    /\ httpResponse.tailored_resume = httpRequest.resume_text
    /\ httpRequest.resume_text # <<>>

\* C9: generate_improvement_suggestions returns a list of between 5 and 7
\* strings, in every client mode and for every backend response.
C9_SuggestionsFiveToSeven ==
    (Answered /\ httpRequest.endpoint = "analyze" /\ httpResponse.status = 200) =>
        /\ Len(httpResponse.suggestions) >= 5
        /\ Len(httpResponse.suggestions) <= 7

\* the job description holds the word w, in whatever letter case
Mentions(job_description, w) == Contains(Lower(job_description), Lower(w))

\* the keyword records hold an entry for the keyword k
HasEntry(keywords_data, k) ==
    \E i \in 1..Len(keywords_data) : get_keyword(keywords_data[i]) = k

WordDocker == <<"D","o","c","k","e","r">>

\* C10: with the backend disabled extract_keywords_from_job_description is
\* deterministic: two calls with the same job description return identical
\* lists, whatever the backend would have answered; for a job description
\* containing 'Python' and 'Docker' the list has entries for 'python' and
\* 'docker'.
C10_FallbackExtractionDeterministic ==
    (Answered /\ client = "none") =>
        /\ \A i \in 1..Len(prevKeywords) :
              prevKeywords[i].job_description = extracted[1].job_description
                  => prevKeywords[i].keywords = extracted[1].keywords
        /\ (/\ Mentions(extracted[1].job_description, WordPython)
            /\ Mentions(extracted[1].job_description, WordDocker))
               => /\ HasEntry(extracted[1].keywords, Lower(WordPython))
                  /\ HasEntry(extracted[1].keywords, Lower(WordDocker))

\* a service without backend has extracted the keywords of the same job
\* description twice, with different backend replies on offer, and found
\* python and docker
C10_Witness ==
    /\ Answered
    /\ client = "none"
    /\ Len(prevKeywords) = 1
    /\ prevKeywords[1].job_description = extracted[1].job_description
    /\ httpRequest.kw_reply.transport = "ok"
    /\ httpRequest.kw_reply.body.parse = "array"
    /\ HasEntry(extracted[1].keywords, Lower(WordPython))
    /\ HasEntry(extracted[1].keywords, Lower(WordDocker))

\* the keywords of the records, in order
KeywordsOf(recs) == [i \in 1..Len(recs) |-> recs[i].keyword]

\* Python:0.8 and Java:0.2
RecordsPythonJava ==
    <<KeywordRecord(WordPython, 8, "technical"), KeywordRecord(WordJava, 2, "technical")>>

\* C12: end to end on /resume/analyze, with the extracted keyword records
\* given: keyword_matches maps exactly the found keywords to their frequency,
\* missing_keywords lists exactly the keywords not found, and
\* confidence_score is the importance-weighted share of the found keywords;
\* for the resume 'I use Python daily' with Python:0.8 and Java:0.2 the
\* response has keyword_matches={Python:1}, missing_keywords=[Java] and
\* confidence_score 0.8.
C12_AnalyzeEndToEnd ==
    (Answered /\ httpRequest.endpoint = "analyze" /\ httpResponse.status = 200) =>
        LET recs    == extracted[1].keywords
            m       == analyze_resume_keywords(httpRequest.resume_text, KeywordsOf(recs))
            matches == httpResponse.keyword_matches
            missing == httpResponse.missing_keywords
        IN  /\ \A i \in 1..Len(m) :
                  /\ m[i].found <=>
                        \E j \in 1..Len(matches) :
                            matches[j] = [keyword   |-> m[i].keyword,
                                          frequency |-> m[i].frequency]
                  /\ ~m[i].found <=> \E j \in 1..Len(missing) : missing[j] = m[i].keyword
            /\ \A j \in 1..Len(matches) :
                  \E i \in 1..Len(m) : m[i].found /\ m[i].keyword = matches[j].keyword
            /\ \A j \in 1..Len(missing) :
                  \E i \in 1..Len(m) : ~m[i].found /\ m[i].keyword = missing[j]
            /\ \A j, k \in 1..Len(matches) :
                  matches[j].keyword = matches[k].keyword => j = k
            /\ \A j, k \in 1..Len(missing) : missing[j] = missing[k] => j = k
            /\ FracEq(httpResponse.confidence_score, ReferenceScore(m, recs))
            /\ (httpRequest.resume_text = ResumeDaily /\ recs = RecordsPythonJava) =>
                  /\ matches = <<[keyword |-> WordPython, frequency |-> 1]>>
                  /\ missing = <<WordJava>>
                  /\ FracEq(httpResponse.confidence_score, Fraction(8, 10))

\* the resume 'I use Python daily' has been analysed against the records
\* Python:0.8 and Java:0.2 that the backend extracted
C12_Witness ==
    /\ Answered
    /\ httpRequest.endpoint = "analyze"
    /\ httpResponse.status = 200
    /\ httpRequest.resume_text = ResumeDaily
    /\ extracted[1].keywords = RecordsPythonJava
    /\ httpResponse.missing_keywords = <<WordJava>>

-----------------------------------------------------------------------------
(* Claims about the fallback section splitter, checked under SpecSplit *)

\* the place in the table of the first section a synonym of which the line
\* holds, 0 if it holds none
HeaderKey(line) ==
    LET line_lower == Strip(Lower(line))
        ns == {n \in 1..Len(section_keywords) :
                  \E k \in 1..Len(section_keywords[n].synonyms) :
                      Contains(line_lower, section_keywords[n].synonyms[k])}
    IN  IF ns = {} THEN 0 ELSE CHOOSE n \in ns : \A o \in ns : n <= o

\* the header key of every line
RECURSIVE HeaderKeys(_)
HeaderKeys(lines) ==
    IF lines = <<>> THEN <<>>
    ELSE <<HeaderKey(Head(lines))>> \o HeaderKeys(Tail(lines))

\* the line i is kept as content: it is no header and not blank
IsContentLine(lines, key, i) == key[i] = 0 /\ Strip(lines[i]) # <<>>

\* the label in force at line i: the title-cased key of the last header line
\* before it, 'Summary' when there is none
LabelAt(key, i) ==
    LET hs == {h \in 1..(i - 1) : key[h] > 0}
    IN  IF hs = {} THEN default_section
        ELSE LET h == CHOOSE x \in hs : \A y \in hs : y <= x
             IN  Title(section_keywords[key[h]].name)

\* a section starts at the content line i: every content line before it is
\* followed by a header line before i
StartsSection(lines, key, i) ==
    /\ IsContentLine(lines, key, i)
    /\ \A j \in 1..(i - 1) :
          IsContentLine(lines, key, j) => \E h \in (j + 1)..(i - 1) : key[h] > 0

\* the content lines from line i up to the next header line, in order
RECURSIVE ContentFrom(_, _, _)
ContentFrom(lines, key, i) ==
    IF i > Len(lines) \/ key[i] > 0 THEN <<>>
    ELSE (IF IsContentLine(lines, key, i) THEN <<lines[i]>> ELSE <<>>)
         \o ContentFrom(lines, key, i + 1)

\* the sections that start at line i or later
RECURSIVE SectionsFrom(_, _, _)
SectionsFrom(lines, key, i) ==
    IF i > Len(lines) THEN <<>>
    ELSE (IF StartsSection(lines, key, i)
          THEN <<[section_name |-> LabelAt(key, i),
                  content      |-> Strip(Join(ContentFrom(lines, key, i), <<"\n">>))]>>
          ELSE <<>>)
         \o SectionsFrom(lines, key, i + 1)

\* the sections of a resume as the specification describes them
ReferenceSections(resume_text) ==
    LET lines == SplitLines(resume_text)
    IN  SectionsFrom(lines, HeaderKeys(lines), 1)

\* 'Summary\nBuilt things\nExperience\nDid work\n'
TextSummaryExperience ==
    <<"S","u","m","m","a","r","y","\n","B","u","i","l","t"," ","t","h","i","n","g","s",
      "\n","E","x","p","e","r","i","e","n","c","e","\n","D","i","d"," ","w","o","r","k",
      "\n">>

\* C13: _fallback_section_analysis starts with the label 'Summary'; on each
\* line that holds a synonym it emits the accumulated content, only if
\* non-empty, as a section named with the title-cased current label, then
\* switches the label to the matched section key and empties the accumulator;
\* at the end of the input it emits the remaining content.  For the text
\* 'Summary\nBuilt things\nExperience\nDid work\n' the output is
\* [Summary: 'Built things', Experience: 'Did work'].
C13_SectionSplitter ==
    phase = "done" =>
        /\ splitSections = ReferenceSections(sectionText)
        /\ sectionText = TextSummaryExperience =>
              splitSections =
                  <<[section_name |-> <<"S","u","m","m","a","r","y">>,
                     content      |-> <<"B","u","i","l","t"," ","t","h","i","n","g","s">>],
                    [section_name |-> <<"E","x","p","e","r","i","e","n","c","e">>,
                     content      |-> <<"D","i","d"," ","w","o","r","k">>]>>

\* the text of the example has been split into its two sections
C13_Witness ==
    /\ phase = "done"
    /\ sectionText = TextSummaryExperience
    /\ Len(splitSections) = 2

\* the lines of the resume that are not blank and hold no synonym, in order
RECURSIVE KeptLines(_)
KeptLines(lines) ==
    IF lines = <<>> THEN <<>>
    ELSE (IF HeaderKey(Head(lines)) = 0 /\ Strip(Head(lines)) # <<>>
          THEN <<Head(lines)>> ELSE <<>>)
         \o KeptLines(Tail(lines))

\* the lines of the contents of the output sections, in order
SectionLines ==
    Concat([n \in 1..Len(splitSections) |-> SplitLines(splitSections[n].content)])

\* the number of content lines in the sections before section n
RECURSIVE LinesBefore(_)
LinesBefore(n) ==
    IF n <= 1 THEN 0
    ELSE LinesBefore(n - 1) + Len(SplitLines(splitSections[n - 1].content))

RECURSIVE LStrip(_)
LStrip(t) == IF t # <<>> /\ Head(t) \in Whitespace THEN LStrip(Tail(t)) ELSE t

RECURSIVE RStrip(_)
RStrip(t) ==
    IF t # <<>> /\ t[Len(t)] \in Whitespace THEN RStrip(SubSeq(t, 1, Len(t) - 1)) ELSE t

\* C20 as stated: the contents of the output sections, concatenated in
\* order, are exactly the non-blank lines of the input that hold no synonym,
\* each verbatim.
C20_LinesVerbatim ==
    phase = "done" => SectionLines = KeptLines(SplitLines(sectionText))

\* C20 as amended: the lines of the contents of the output sections, in
\* order, are the non-blank lines of the input that hold no synonym, each
\* verbatim except that the first line of a section has lost its leading
\* white space and the last line of a section its trailing white space; no
\* line that holds a synonym appears in a content.
C20_LinesKeptUpToOuterWhitespace ==
    phase = "done" =>
        LET kept == KeptLines(SplitLines(sectionText))
        IN  /\ Len(SectionLines) = Len(kept)
            /\ \A n \in 1..Len(splitSections) :
                  LET ls == SplitLines(splitSections[n].content)
                  IN  \A j \in 1..Len(ls) :
                        LET line  == kept[LinesBefore(n) + j]
                            left  == IF j = 1 THEN LStrip(line) ELSE line
                        IN  /\ ls[j] = IF j = Len(ls) THEN RStrip(left) ELSE left
                            /\ HeaderKey(ls[j]) = 0

\* a section of at least three lines keeps the white space around a middle
\* line, while a line at the edge of a section has lost some
C20_Witness ==
    /\ phase = "done"
    /\ SectionLines # KeptLines(SplitLines(sectionText))
    /\ \E n \in 1..Len(splitSections) :
          LET ls == SplitLines(splitSections[n].content)
          IN  /\ Len(ls) >= 3
              /\ Head(ls[2]) \in Whitespace
              /\ ls[2][Len(ls[2])] \in Whitespace

\* C14: the backend mode of the adapter is decided once, when the
\* process-wide AIService is constructed; no operation or request changes it
\* or probes reachability again: a service that started with no backend
\* handles every later request on the fallback paths, also when the backend
\* has become reachable.
C14_ModeDecidedOnce ==
    /\ [][client' = client /\ probes' = probes]_vars
    /\ [](probes = 1)
    /\ []((Answered /\ client = "none") =>
            /\ \A i \in 1..Len(backendCalls) : backendCalls[i].requests = <<>>
            /\ extracted[1].keywords
                   = fallback_keyword_extraction(httpRequest.job_description)
            /\ (httpRequest.endpoint = "analyze" /\ httpResponse.status = 200) =>
                  /\ httpResponse.tailored_resume = httpRequest.resume_text
                  /\ httpResponse.suggestions
                         = fallback_suggestions(
                               analyze_resume_keywords(httpRequest.resume_text,
                                                       KeywordsOf(extracted[1].keywords))))

\* a service that started with no backend has handled a request on the
\* fallback paths while the backend was reachable and had good replies
C14_Witness ==
    /\ Answered
    /\ client = "none"
    /\ ollamaReachable
    /\ httpRequest.endpoint = "analyze"
    /\ httpRequest.kw_reply.transport = "ok"
    /\ httpRequest.kw_reply.body.parse = "array"
    /\ httpRequest.tailor_reply.transport = "ok"
    /\ Len(backendCalls) = 3
    /\ httpResponse.tailored_resume = httpRequest.resume_text

-----------------------------------------------------------------------------
(* Claims about /resume/analyze-file, checked under SpecUpload *)

UploadAnswered == phase = "answered" /\ httpRequest.endpoint = "analyze-file"

\* the validation error of an upload, "none" if it has none or if reading it
\* fails before the check is made
ValidationError(req) ==
    IF req.filename = <<>> THEN "No file provided"
    ELSE IF detect_file_format(req.filename) = "none" THEN "Unsupported file format"
    ELSE IF req.read_fails THEN "none"
    ELSE IF req.file_size > MaxFileBytes THEN "File too large (max 10MB)"
    ELSE IF req.extraction.kind = "none" \/ req.extraction.text = <<>>
    THEN "Could not extract text from file"
    ELSE "none"

\* C16: in /resume/analyze-file each input validation error (missing file
\* name, unsupported format, file over the size cap, no extractable text) is
\* surfaced as a rejection (HTTP 400) with a descriptive message; it is never
\* turned into a generic 500 failure and never yields an analysis result.
C16_ValidationErrorsRejected ==
    (UploadAnswered /\ ValidationError(httpRequest) # "none") =>
        /\ httpResponse.status = 400
        /\ httpResponse.detail = ValidationError(httpRequest)
        /\ DOMAIN httpResponse = {"status", "endpoint", "detail"}
        /\ extracted = <<>>
        /\ backendCalls = <<>>

\* an upload over the size cap has been rejected after its temporary file
\* was written
C16_Witness ==
    /\ UploadAnswered
    /\ httpRequest.file_size > MaxFileBytes
    /\ tempFile = "deleted"
    /\ httpResponse.status = 400
    /\ httpResponse.detail = "File too large (max 10MB)"

-----------------------------------------------------------------------------
(* Claims about failures inside the handlers, checked under Spec *)

\* the sections analyze_resume_sections returned to the request for a
\* detailed analysis
SectionsOfRequest ==
    analyze_resume_sections(client, httpRequest.sections_reply, httpRequest.resume_text)

\* the message of the error raised while the request was handled, "none" if
\* no error was raised
ErrorRaised ==
    IF subscript_raises(extracted[1].keywords) THEN subscript_error(extracted[1].keywords)
    ELSE IF httpRequest.endpoint = "detailed" /\ get_raises(SectionsOfRequest) THEN get_error
    ELSE "none"

\* C17: when an unexpected internal error occurs at any step of
\* /resume/analyze or /resume/detailed-analysis, the request ends as a
\* generic failure (HTTP 500) that carries the message of the error, and no
\* partial analysis result is returned.
C17_InternalErrorIsGenericFailure ==
    (Answered /\ httpRequest.endpoint \in {"analyze", "detailed"}) =>
        /\ ErrorRaised # "none" =>
              /\ httpResponse.status = 500
              /\ httpResponse.detail.message = ErrorRaised
              /\ httpResponse.detail.prefix =
                     (IF httpRequest.endpoint = "analyze" THEN "Analysis failed"
                      ELSE "Detailed analysis failed")
              /\ DOMAIN httpResponse = {"status", "endpoint", "detail"}
        /\ ErrorRaised = "none" => httpResponse.status = 200

\* a detailed analysis has failed on the second of the sections the backend
\* returned, after the first section was tailored
C17_Witness ==
    /\ Answered
    /\ httpRequest.endpoint = "detailed"
    /\ ~subscript_raises(extracted[1].keywords)
    /\ get_raises(SectionsOfRequest)
    /\ httpResponse.status = 500
    /\ httpResponse.detail.message = get_error
    /\ Len(backendCalls) = 4

-----------------------------------------------------------------------------
(* Claims about header lines that name two sections, checked under SpecTie *)

\* the section names in the order of the table
TableOrder ==
    <<<<"e","x","p","e","r","i","e","n","c","e">>,
      <<"e","d","u","c","a","t","i","o","n">>,
      <<"s","k","i","l","l","s">>,
      <<"s","u","m","m","a","r","y">>,
      <<"p","r","o","j","e","c","t","s">>,
      <<"c","e","r","t","i","f","i","c","a","t","i","o","n","s">>>>

\* the sections one of whose synonyms the line holds, whatever its case
SectionsNamed(line) ==
    {n \in 1..Len(section_keywords) :
        \E k \in 1..Len(section_keywords[n].synonyms) :
            Mentions(line, section_keywords[n].synonyms[k])}

\* 'Built things\nSkills And Experience\nDid work'
TextSkillsAndExperience ==
    <<"B","u","i","l","t"," ","t","h","i","n","g","s","\n","S","k","i","l",
    "l","s"," ","A","n","d"," ","E","x","p","e","r","i","e","n","c","e","\n",
    "D","i","d"," ","w","o","r","k">>

\* C21: in _fallback_section_analysis, when a line contains synonyms of more
\* than one section, the section chosen is the first one in table order
\* (experience, education, skills, summary, projects, certifications),
\* whatever the position of the synonyms inside the line.
C21_TieBreakByTableOrder ==
    /\ \A n \in 1..Len(section_keywords) : section_keywords[n].name = TableOrder[n]
    /\ phase = "done" =>
          LET named == SectionsNamed(SplitLines(sectionText)[2])
          IN  /\ Cardinality(named) >= 2
              /\ \E n \in named :
                    /\ \A m \in named : n <= m
                    /\ splitSections =
                          <<[section_name |-> default_section, content |-> LineBuiltThings],
                            [section_name |-> Title(TableOrder[n]), content |-> LineDidWork]>>

\* the header 'Skills And Experience' opens the section Experience, although
\* 'skills' comes first in the line
C21_Witness ==
    /\ phase = "done"
    /\ sectionText = TextSkillsAndExperience
    /\ splitSections[2].section_name = Title(TableOrder[1])

-----------------------------------------------------------------------------
(* Claims about blank lines, checked under SpecBlank *)

\* lines that are empty or hold white space only
BlankLines == {<<>>, <<" ">>, <<"\t", " ">>, <<"\r">>}

\* the lines that are not blank, in order
RECURSIVE NonBlank(_)
NonBlank(lines) ==
    IF lines = <<>> THEN <<>>
    ELSE (IF Strip(Head(lines)) # <<>> THEN <<Head(lines)>> ELSE <<>>)
         \o NonBlank(Tail(lines))

\* the lines with the line b put after the first i of them
InsertLine(lines, i, b) ==
    SubSeq(lines, 1, i) \o <<b>> \o SubSeq(lines, i + 1, Len(lines))

\* C22: blank lines (empty or whitespace-only) have no effect on
\* _fallback_section_analysis: inserting or removing blank lines anywhere in
\* the input leaves the output sections (names, order, content) unchanged.
C22_BlankLinesHaveNoEffect ==
    phase = "done" =>
        LET lines == SplitLines(sectionText)
        IN  /\ fallback_section_analysis(Join(NonBlank(lines), <<"\n">>)) = splitSections
            /\ \A i \in 0..Len(lines) : \A b \in BlankLines :
                  fallback_section_analysis(Join(InsertLine(lines, i, b), <<"\n">>))
                      = splitSections

\* a resume with a blank line between two lines of one section: the section
\* holds both lines
C22_Witness ==
    /\ phase = "done"
    /\ LET lines == SplitLines(sectionText)
       IN  \E i \in 2..(Len(lines) - 1) :
              /\ Strip(lines[i]) = <<>>
              /\ HeaderKey(lines[i - 1]) = 0 /\ Strip(lines[i - 1]) # <<>>
              /\ HeaderKey(lines[i + 1]) = 0 /\ Strip(lines[i + 1]) # <<>>
    /\ Len(splitSections) = 1
    /\ Len(SplitLines(splitSections[1].content)) = 2

-----------------------------------------------------------------------------
(* Claims about the fallback suggestions, checked under SpecSuggest *)

\* the call met no backend, or a backend that failed
BackendFailedOrAbsent ==
    \/ suggestionCall.client = "none"
    \/ suggestionCall.reply.transport \in FailedTransports

\* the keywords of the analysis whose found is false, in order
MissingNames ==
    LET idx == {i \in 1..Len(keywordAnalysis) : ~keywordAnalysis[i].found}
        nth[k \in 0..Cardinality(idx)] ==
            IF k = 0 THEN <<>>
            ELSE Append(nth[k - 1],
                        CHOOSE i \in idx :
                            Cardinality({j \in idx : j < i}) = k - 1)
    IN  [k \in 1..Cardinality(idx) |-> keywordAnalysis[nth[Cardinality(idx)][k]].keyword]

\* 'Add the following keywords to your resume: ' and the first (at most 5)
\* missing keywords, separated by ', '
MissingSentence ==
    missing_prefix
    \o Join([k \in 1..Min(5, Len(MissingNames)) |-> MissingNames[k]], <<",", " ">>)

\* C23 as stated: on backend failure or unavailability,
\* generate_improvement_suggestions returns the 5 generic static suggestions
\* in fixed order, preceded by one 'missing keywords' sentence naming the
\* first (at most 5) keywords whose found is false.
C23_FallbackListWithSentence ==
    (phase = "done" /\ BackendFailedOrAbsent) =>
        suggestionCall.result = <<MissingSentence>> \o static_suggestions

\* C23 as amended: on backend failure or unavailability,
\* generate_improvement_suggestions returns the 5 generic static suggestions
\* in fixed order, preceded, when at least one keyword has found false, by
\* one 'missing keywords' sentence naming the first (at most 5) such
\* keywords; when no keyword is missing the list is the 5 static
\* suggestions alone.
C23_FallbackListSentenceIfMissing ==
    (phase = "done" /\ BackendFailedOrAbsent) =>
        /\ Len(static_suggestions) = 5
        /\ suggestionCall.result =
              (IF MissingNames # <<>> THEN <<MissingSentence>> ELSE <<>>)
              \o static_suggestions

\* a call in Ollama mode whose backend timed out, with six keywords missing:
\* the sentence names the first five
C23_Witness ==
    /\ phase = "done"
    /\ suggestionCall.client = "ollama"
    /\ suggestionCall.reply.transport = "timeout"
    /\ Len(MissingNames) = 6
    /\ Len(suggestionCall.result) = 6
    /\ suggestionCall.result[1] =
          missing_prefix
          \o Join(SubSeq(MissingNames, 1, 5), <<",", " ">>)

-----------------------------------------------------------------------------
(* Claims about the text normalizer and the temporary file, checked under   *)
(* SpecUpload                                                               *)

\* the handler has cleaned the extracted text and analysed it
TextAnalysed == \E i \in 1..Len(uploadLog) : uploadLog[i] = "analyze"

\* C24: for every input, the output of clean_text has whitespace collapsed
\* (no two adjacent whitespace characters, no leading or trailing
\* whitespace), contains no control characters, and has normalized line
\* endings (no carriage return); text extracted from an uploaded file is
\* passed through clean_text before analysis.
C24_CleanTextNormalised ==
    TextAnalysed =>
        /\ uploadText = clean_text(httpRequest.extraction.text)
        /\ httpResponse.status = 200 => httpResponse.original_resume = uploadText
        /\ \A i \in 1..(Len(uploadText) - 1) :
              ~(uploadText[i] \in Whitespace /\ uploadText[i + 1] \in Whitespace)
        /\ uploadText # <<>> =>
              uploadText[1] \notin Whitespace /\ uploadText[Len(uploadText)] \notin Whitespace
        /\ \A i \in 1..Len(uploadText) : uploadText[i] # Nul /\ uploadText[i] # "\r"

\* C25: every temporary file created by /resume/analyze-file is deleted by
\* the time the request completes, on every outcome: success, size
\* rejection, extraction failure, analysis failure, and a failure while
\* reading the upload or writing it to the temporary file.
C25_TempFileDeleted ==
    UploadAnswered => tempFile # "exists"

-----------------------------------------------------------------------------
(* Further claims about the adapter and the router, checked under Spec *)

\* C26: in every /resume/analyze response, the keys of keyword_matches and
\* the elements of missing_keywords are disjoint, together they are exactly
\* the set of distinct extracted keywords, and every value in
\* keyword_matches is at least 1.
C26_MatchesAndMissingPartition ==
    (Answered /\ httpRequest.endpoint = "analyze" /\ httpResponse.status = 200) =>
        LET matched   == {httpResponse.keyword_matches[j].keyword :
                             j \in 1..Len(httpResponse.keyword_matches)}
            missing   == {httpResponse.missing_keywords[j] :
                             j \in 1..Len(httpResponse.missing_keywords)}
            keywords  == {extracted[1].keywords[i].keyword :
                             i \in 1..Len(extracted[1].keywords)}
        IN  /\ matched \cap missing = {}
            /\ matched \cup missing = keywords
            /\ \A j \in 1..Len(httpResponse.keyword_matches) :
                  httpResponse.keyword_matches[j].frequency >= 1

\* a response of the fallback extraction with a keyword that is in the
\* resume and a keyword that is not
C26_Witness ==
    /\ Answered
    /\ httpRequest.endpoint = "analyze"
    /\ httpResponse.status = 200
    /\ client = "none"
    /\ Len(httpResponse.keyword_matches) >= 1
    /\ Len(httpResponse.missing_keywords) >= 1
    /\ Len(extracted[1].keywords)
          = Len(httpResponse.keyword_matches) + Len(httpResponse.missing_keywords)

\* the steps of the upload handler in the order of the code
UploadOrder == <<"name", "format", "save", "size", "extract", "analyze", "finally">>

\* the place of a step in that order
OrderOf(step) == CHOOSE n \in 1..Len(UploadOrder) : UploadOrder[n] = step

\* the steps the handler has taken so far
StepsTaken == {uploadLog[i] : i \in 1..Len(uploadLog)}

\* C27: in /resume/analyze-file the checks run in a fixed order (file name,
\* format by extension, size, text extraction) and the first failing check
\* ends the request: no temporary file is written when the file name is
\* missing or the format is unsupported, text extraction never runs on an
\* oversized file, and no model-backend call or keyword analysis happens in
\* a request that fails any check.
C27_ChecksInOrder ==
    httpRequest.endpoint = "analyze-file" =>
        LET no_name     == httpRequest.filename = <<>>
            no_format   == ~no_name /\ detect_file_format(httpRequest.filename) = "none"
            too_large   == httpRequest.file_size > 10 * 1024 * 1024
            no_text     == \/ httpRequest.extraction.kind = "none"
                           \/ httpRequest.extraction.text = <<>>
        IN  /\ \A i, j \in 1..Len(uploadLog) :
                  i < j => OrderOf(uploadLog[i]) < OrderOf(uploadLog[j])
            /\ \A i \in 1..Len(uploadLog) :
                  \A n \in 1..(OrderOf(uploadLog[i]) - 1) :
                      UploadOrder[n] \in StepsTaken \/ uploadLog[i] = "finally"
            /\ no_name => StepsTaken \subseteq {"name"} /\ tempFile = "none"
            /\ no_format => StepsTaken \subseteq {"name", "format"} /\ tempFile = "none"
            /\ too_large => "extract" \notin StepsTaken
            /\ (no_name \/ no_format \/ too_large \/ no_text) =>
                  /\ "analyze" \notin StepsTaken
                  /\ backendCalls = <<>>
                  /\ extracted = <<>>
            /\ (UploadAnswered /\ ~httpRequest.read_fails) =>
                  /\ no_name => httpResponse.detail = "No file provided"
                  /\ no_format => httpResponse.detail = "Unsupported file format"
                  /\ (~no_name /\ ~no_format /\ too_large) =>
                        httpResponse.detail = "File too large (max 10MB)"
                  /\ (~no_name /\ ~no_format /\ ~too_large /\ no_text) =>
                        httpResponse.detail = "Could not extract text from file"

\* an oversized upload without text has been rejected for its size, after
\* its name and format passed and before any extraction
C27_Witness ==
    /\ UploadAnswered
    /\ httpRequest.file_size > 10 * 1024 * 1024
    /\ httpRequest.extraction.kind = "none"
    /\ uploadLog = <<"name", "format", "save", "size", "finally">>
    /\ httpResponse.detail = "File too large (max 10MB)"
    /\ backendCalls = <<>>

-----------------------------------------------------------------------------
(* Claims about the construction of the service, checked under SpecConstruct *)

\* C28: AIService construction selects the backend by strict priority:
\* Ollama when its reachability probe answers 200 (whether or not an OpenAI
\* key is set); otherwise OpenAI exactly when OPENAI_API_KEY is set, is not
\* the placeholder value and the client constructs; otherwise none.  In
\* Ollama mode a failed Ollama call goes to the deterministic fallback and
\* OpenAI is never called.
C28_BackendPriority ==
    LET probe_200  == environment.probe = "200"
        usable_key == environment.api_key \notin {"unset", "empty", "placeholder"}
    IN  /\ probe_200 => client = "ollama"
        /\ ~probe_200 =>
              /\ client = "openai" <=> (usable_key /\ environment.openai_constructs)
              /\ client # "openai" => client = "none"
        /\ (Answered /\ client = "ollama") =>
              /\ \A i \in 1..Len(backendCalls) : backendCalls[i].backend = "ollama"
              /\ httpRequest.kw_reply.transport \in FailedTransports =>
                    /\ httpResponse.status = 200
                    /\ httpResponse.keywords =
                          fallback_keyword_extraction(httpRequest.job_description)

\* a service constructed with a reachable Ollama and a usable OpenAI key is
\* in Ollama mode; its keyword call timed out and the fallback answered
C28_Witness ==
    /\ Answered
    /\ environment.probe = "200"
    /\ environment.api_key = "key"
    /\ environment.openai_constructs
    /\ client = "ollama"
    /\ httpRequest.kw_reply.transport = "timeout"
    /\ httpResponse.keywords # <<>>
    /\ Len(backendCalls) = 1
    /\ backendCalls[1].requests = <<"timeout">>

-----------------------------------------------------------------------------
(* Claims about tailoring in Ollama mode, checked under Spec *)

\* the text the backend returned to the tailoring call of the request: the
\* completion of a reply that came back, nothing otherwise
BackendText(reply) == IF reply.transport = "ok" THEN reply.body.text ELSE <<>>

\* C29: in Ollama mode, tailor_resume returns the backend's text only when
\* it is longer than 100 characters; for an empty response or any response
\* of 100 characters or fewer it returns the original resume_text unchanged.
C29_TailorLengthThreshold ==
    /\ (Answered /\ httpRequest.endpoint = "analyze" /\ httpResponse.status = 200
        /\ client = "ollama") =>
          LET text == BackendText(httpRequest.tailor_reply)
          IN  httpResponse.tailored_resume =
                  IF Len(text) > 100 THEN text ELSE httpRequest.resume_text
    /\ (Answered /\ httpRequest.endpoint = "detailed" /\ httpResponse.status = 200
        /\ client = "ollama") =>
          \A i \in 1..Len(httpResponse.sections) :
              LET text == BackendText(ReplyAt(httpRequest.tailor_replies, i))
              IN  httpResponse.sections[i].tailored_content =
                      IF Len(text) > 100 THEN text
                      ELSE httpResponse.sections[i].original_content

\* in Ollama mode a completion of 101 characters has replaced the resume
C29_Witness ==
    /\ Answered
    /\ httpRequest.endpoint = "analyze"
    /\ httpResponse.status = 200
    /\ client = "ollama"
    /\ httpRequest.tailor_reply.transport = "ok"
    /\ Len(httpRequest.tailor_reply.body.text) = 101
    /\ httpResponse.tailored_resume = httpRequest.tailor_reply.body.text
    /\ httpResponse.tailored_resume # httpRequest.resume_text

=============================================================================
